---- MODULE Spec2Model ----
(***************************************************************************)
(* State-machine model of the RCC provisioning tool (src/rcc).             *)
(*                                                                         *)
(*   RetrySpec  retry_operation on its own: every max_retries, delay_base, *)
(*              backoff kind and on_retry choice, the operation free to    *)
(*              return or raise on each call.                              *)
(*   Spec       Provisioner.provision_batch over a list of candidate       *)
(*              networks, each device run through provision_device with    *)
(*              every outcome of every collaborator call.                  *)
(*   MainSpec   the same batch as RCCApp._provision_devices runs it, with  *)
(*              checkpoint write failures, operator interrupts, the        *)
(*              reconnect after the return, the reconciliation of the      *)
(*              devices' addresses and the summary.                        *)
(*   ScenarioSpec  the batch of three candidates whose second device       *)
(*              refuses its broker configuration.                          *)
(*   CheckpointSpec  save_checkpoint followed by load_checkpoint.          *)
(*   FairSpec   Spec when every call returns or raises within its timeout. *)
(*   SweepSpec  BrokerDiscovery._scan_network and _populate_arp_table: the *)
(*              worker threads of the subnet sweep, interleaved step by    *)
(*              step.                                                      *)
(*   DiscoverSpec  BrokerDiscovery.discover: the cascade of strategies     *)
(*              ending in the sweep.                                       *)
(*   ResolveSpec  resolve_hostname, with and without a hardware address.   *)
(*   AppSpec    RCCApp.run: the configuration setup, the menu loop and the *)
(*              three ways it ends, up to the exit of the interpreter.     *)
(*                                                                         *)
(* Python values are modelled as follows.  Optional[x] is a sequence of    *)
(* length at most one (None is << >>).  A str built by an f-string is the  *)
(* sequence of its pieces.  Exceptions are records [type, msg].            *)
(***************************************************************************)
EXTENDS Integers, Sequences, FiniteSets, TLC

\* ---------------------------------------------------------------- bounds
MaxDevices == 2
MaxAttempts == 3
\* the subnet sweep: addresses prefix.1 .. prefix.SweepHosts (254 in the code)
\* and worker threads (50 in the code)
SweepHosts == 3
SweepWorkers == 2

\* ------------------------------------------------------ program constants
default_max_retries == 3
retry_delay_base == 2
connect_delay_base == 5
broker_port == 1883
inter_device_delay == 2
resolve_attempts == 5
resolve_delay == 2

\* ------------------------------------------------------- Python helpers
None == << >>
Some(x) == << x >>

\* truthiness of an Optional[str] / str, as "if x" and "x or y" use it
Truthy(s) == \E k \in 1..Len(s) : s[k] # ""

\* str(e) of an exception record
Str(e) == e.msg

\* f"{x}" of an Optional exception: "None" or str(x)
FormatOptional(oe) == IF oe = None THEN <<"None">> ELSE Str(oe[1])

\* Exception(msg)
PyException(msg) == [type |-> "Exception", msg |-> msg]

\* ShellyAPIError(message): str is "Shelly API Error: " + message (no code)
ShellyAPIError(message) ==
    [type |-> "ShellyAPIError", msg |-> <<"Shelly API Error: ">> \o message]

\* RetryError(f"Operation failed after {max_retries} attempts: {last_error}")
RetryError(n, last) ==
    [type |-> "RetryError",
     msg  |-> <<"Operation failed after ", ToString(n), " attempts: ">>
              \o FormatOptional(last)]

\* --------------------------------------------------------------- state
VARIABLES
    pc,               \* control point of the running call
    retry,            \* activation record of retry_operation
    networks,         \* provision_batch argument: the candidate list
    idx,              \* provision_batch loop variable i
    device,           \* provision_device's record under construction (Optional)
    api_bound,        \* whether provision_device's local `api` is bound
    results,          \* provision_batch's results list
    session,          \* Provisioner.session (Optional)
    checkpoint,       \* the data last written to the checkpoint file (Optional)
    current_number,   \* DeviceNamingConfig.current_number
    original_network, \* provision_batch's original_network (Optional)
    now,              \* logical clock read by datetime.now()
    obs,              \* the current device: what its collaborators were asked and answered
    log,              \* what the batch and its caller did since the previous record
                      \* was handed back, in order (not program state)
    disc,             \* BrokerDiscovery.discover: its position, calls and result
    sweep,            \* BrokerDiscovery._scan_network: found_broker and its workers
    loaded,           \* the session load_checkpoint returned (Optional)
    files,            \* the working directory: path -> document written there
    recon,            \* RCCApp._provision_devices after the batch: its counts,
                      \* its reconciliation loop and the summary it shows
    app               \* RCCApp.run: its position, the SecureConfig singleton
                      \* and what the operator chose last

vars == <<pc, retry, networks, idx, device, api_bound, results, session,
          checkpoint, current_number, original_network, now, obs, log,
          disc, sweep, loaded, files, recon, app>>

batch_vars == <<networks, idx, device, api_bound, results, session,
                checkpoint, current_number, original_network, now, obs, log,
                disc, sweep, loaded, files, recon, app>>

\* ------------------------------------------------------ retry_operation
Backoffs == {"exponential", "linear"}
DelayBases == {1, 2, 5}
GenericValues == {"v1", "v2"}
GenericErrors == {PyException(<<"E1">>), PyException(<<"E2">>)}

\* SecureConfig.broker as the provisioner is given it
broker == [hostname |-> "raspi-RCC.local", ip |-> Some("192.168.1.50"),
           port |-> broker_port,
           username |-> "mqtt-user", password |-> "mqtt-secret"]

\* BrokerConfig.address: ip or hostname
address(b) == IF b.ip # None /\ b.ip[1] # "" THEN b.ip[1] ELSE b.hostname

\* SecureConfig.wifi
wifi == [ssid |-> "TargetWiFi", password |-> "wifi-secret"]

\* the secrets the operator typed in
Credentials == {wifi.password, broker.username, broker.password}

\* the strings provision_device puts in the body of a request
RpcParams(operation) ==
    CASE operation = "config_mqtt" ->
            <<address(broker), ":", ToString(broker.port),
              broker.username, broker.password>>
      [] operation = "config_wifi" -> <<wifi.ssid, wifi.password>>
      [] OTHER -> << >>

\* mutant: the error text quotes the request
RpcFailure_QuotesRequest(params, text) == ShellyAPIError(<<text>> \o params)

\* _rpc_call's handlers: raise ShellyAPIError("Request timeout") and the like,
\* whatever the params were
RpcFailure(params, text) == ShellyAPIError(<<text>>)

\* requests-level failures _rpc_call(method, params) turns into ShellyAPIError
RpcErrorsFor(params) ==
    {RpcFailure(params, "Request timeout"),
     RpcFailure(params, "Connection failed - device not reachable")}

\* the same for a request without parameters
RpcErrors == RpcErrorsFor(<< >>)

\* get_device_info wraps every failure
InfoErrors ==
    {ShellyAPIError(<<"Failed to get device info: ", "timeout">>),
     ShellyAPIError(<<"Failed to get device info: ", "refused">>)}

Returned(v) == [kind |-> "return", value |-> v, error |-> None]
Raised(e) == [kind |-> "raise", value |-> "", error |-> Some(e)]
Running == [kind |-> "running", value |-> "", error |-> None]

\* What one call of the operation handed to retry_operation can do
OpOutcomes(operation) ==
    CASE operation = "generic" ->
            {Returned(v) : v \in GenericValues} \cup {Raised(e) : e \in GenericErrors}
      [] operation = "connect" ->
            \* WiFiManager.connect catches every Exception and returns a bool
            {Returned("True"), Returned("False")}
      [] operation = "get_info" ->
            {Returned("info")} \cup {Raised(e) : e \in InfoErrors}
      [] operation \in {"config_mqtt", "config_wifi"} ->
            {Returned("True")}
            \cup {Raised(e) : e \in RpcErrorsFor(RpcParams(operation))}
      [] OTHER -> {}

RetryIdle ==
    [operation |-> "none", max_retries |-> 0, delay_base |-> 0,
     backoff |-> "exponential", on_retry |-> FALSE,
     attempt |-> 0, last_error |-> None, calls |-> 0, trace |-> << >>,
     outcome |-> Running]

\* entry of retry_operation(operation, max_retries, delay_base, backoff, on_retry)
RetryCall(operation, max_retries, delay_base, backoff, on_retry) ==
    [operation |-> operation, max_retries |-> max_retries,
     delay_base |-> delay_base, backoff |-> backoff, on_retry |-> on_retry,
     attempt |-> 0, last_error |-> None, calls |-> 0, trace |-> << >>,
     outcome |-> Running]

Event(ev, n, err) == [ev |-> ev, n |-> n, err |-> err]

\* mutant: the loop runs one time too many (range(max_retries + 1))
InRange_Inclusive(attempt, max_retries) == attempt <= max_retries

\* for attempt in range(max_retries)
InRange(attempt, max_retries) == attempt < max_retries

\* mutant: the loop variable does not advance after a failed attempt
NextAttempt_Same(attempt) == attempt

\* for attempt in range(max_retries): the next value of the loop variable
NextAttempt(attempt) == attempt + 1

\* if attempt < max_retries - 1
WillRetry(attempt, max_retries) == attempt < max_retries - 1

\* mutant: the callback is given the 0-based loop index
RetryNumber_ZeroBased(attempt) == attempt

\* on_retry(attempt + 1, e): the number passed to the callback
RetryNumber(attempt) == attempt + 1

\* mutant: the exponent is the 1-based attempt number
BackoffDelay_OneBased(delay_base, backoff, attempt) ==
    IF backoff = "exponential" THEN delay_base * (2 ^ (attempt + 1)) ELSE delay_base

\* delay = delay_base * (2 ** attempt) if exponential else delay_base
BackoffDelay(delay_base, backoff, attempt) ==
    IF backoff = "exponential" THEN delay_base * (2 ^ attempt) ELSE delay_base

\* mutant: only the first error is kept
RememberError_KeepsFirst(prev, e) == IF prev = None THEN Some(e) ELSE prev

\* last_error = e
RememberError(prev, e) == Some(e)

\* the events that follow a failed attempt: on_retry, then time.sleep
AfterFailure(r, e) ==
    IF WillRetry(r.attempt, r.max_retries)
    THEN (IF r.on_retry
          THEN << Event("on_retry", RetryNumber(r.attempt), Str(e)) >>
          ELSE << >>)
         \o << Event("sleep",
                     BackoffDelay(r.delay_base, r.backoff, r.attempt), <<>>) >>
    ELSE << >>

\* one iteration of the for loop: call the operation; return its result, or
\* record the error, notify, sleep and go round again
retry_attempt ==
    /\ pc = "retry"
    /\ retry.outcome.kind = "running"
    /\ InRange(retry.attempt, retry.max_retries)
    /\ \E o \in OpOutcomes(retry.operation) :
         LET called == [retry EXCEPT
                          !.calls = @ + 1,
                          !.trace = Append(@, Event("call", retry.attempt, <<>>))]
         IN  IF o.kind = "return"
             THEN /\ retry' = [called EXCEPT
                                 !.trace = Append(@, Event("returned", retry.attempt,
                                                           <<o.value>>)),
                                 !.outcome = o]
                  /\ pc' = "retried"
             ELSE /\ retry' = [called EXCEPT
                                 !.last_error = RememberError(@, o.error[1]),
                                 !.trace = Append(@, Event("raised", retry.attempt,
                                                           Str(o.error[1])))
                                           \o AfterFailure(retry, o.error[1]),
                                 !.attempt = NextAttempt(@)]
                  /\ pc' = "retry"
    /\ UNCHANGED batch_vars

\* the loop is exhausted: raise RetryError(...)
retry_raise ==
    /\ pc = "retry"
    /\ retry.outcome.kind = "running"
    /\ ~InRange(retry.attempt, retry.max_retries)
    /\ retry' = [retry EXCEPT
                   !.outcome = Raised(RetryError(retry.max_retries, retry.last_error))]
    /\ pc' = "retried"
    /\ UNCHANGED batch_vars

\* --------------------------------------------------- candidate networks
\* the 12 hex characters that end a Shelly access point's SSID
DeviceId(k) == "A8032ABE54D" \o ToString(k)

\* WiFiNetwork; the ssid is kept split at "-".  Every third candidate has an
\* SSID whose last part is no MAC address.
Network(k) ==
    [ssid   |-> CASE k % 3 = 1 -> <<"ShellyPlus1", DeviceId(k)>>
                  [] k % 3 = 2 -> <<"ShellyPlus1PM", DeviceId(k)>>
                  [] OTHER     -> <<"ShellyPlugS", ToString(k)>>,
     signal |-> 0 - (40 + k)]

\* WiFiNetwork.is_shelly
is_shelly(network) ==
    network.ssid[1] \in {"ShellyPlus1", "ShellyPlus1PM", "ShellyPlugS"}

\* WiFiNetwork.shelly_model: the first substring test that matches
shelly_model(network) ==
    IF ~is_shelly(network) THEN "Unknown"
    ELSE CASE network.ssid[1] = "ShellyPlus1PM" -> "Plus 1PM"
           [] network.ssid[1] = "ShellyPlus1"   -> "Plus 1"
           [] network.ssid[1] = "ShellyPlugS"   -> "Plug S"
           [] OTHER                             -> "Unknown Model"

\* WiFiNetwork.mac_address: the last part, when it is 12 (hex) characters
mac_address(network) ==
    IF ~is_shelly(network) THEN None
    ELSE LET parts == network.ssid
         IN  IF Len(parts) >= 2 /\ Len(parts[Len(parts)]) = 12
             THEN Some(parts[Len(parts)])
             ELSE None

\* what GET /shelly answers for candidate k
DeviceInfo(k) ==
    [mac |-> DeviceId(k),
     app |-> CASE k % 3 = 1 -> "Plus1" [] k % 3 = 2 -> "Plus1PM" [] OTHER -> "PlugS"]

\* ShellyDeviceInfo.friendly_name
friendly_name(info) ==
    CASE info.app = "Plus1"   -> "Shelly Plus 1"
      [] info.app = "Plus1PM" -> "Shelly Plus 1PM"
      [] info.app = "PlugS"   -> "Shelly Plug S"
      [] OTHER                -> info.app

\* ------------------------------------------------------- configuration
\* ProvisioningOptions.disable_shelly_cloud
disable_shelly_cloud == TRUE

naming_prefix == "RCC-Device"

\* f"{n:03d}"
Pad3(n) ==
    IF n < 10 THEN "00" \o ToString(n)
    ELSE IF n < 100 THEN "0" \o ToString(n)
    ELSE ToString(n)

\* mutant: the counter is not advanced
NextNumber_Stuck(n) == n

\* DeviceNamingConfig.get_next_name: self.current_number += 1
NextNumber(n) == n + 1

\* mutant: the number is not zero-padded
get_next_name_Unpadded(n) == <<naming_prefix, "-", ToString(n)>>

\* DeviceNamingConfig.get_next_name: the name returned
get_next_name(n) == <<naming_prefix, "-", Pad3(n)>>

\* ------------------------------------------------------- device record
\* ProvisionedDevice(mac=..., ap_ssid=..., model=..., state=PENDING, assigned_name=...)
NewDevice(network, name, ts) ==
    [mac             |-> IF mac_address(network) # None
                         THEN mac_address(network)[1] ELSE "unknown",
     ap_ssid         |-> network.ssid,
     model           |-> shelly_model(network),
     state           |-> "pending",
     assigned_name   |-> Some(name),
     final_ip        |-> None,
     steps_completed |-> << >>,
     error_message   |-> None,
     timestamp       |-> ts]

Terminal == {"completed", "failed", "rolled_back"}

Contains(seq, x) == \E p \in 1..Len(seq) : seq[p] = x

\* what is noted about the device being provisioned, from its entry to the
\* entry of the next one (not program state)
NewObs ==
    [exhausted        |-> FALSE,  \* a retried step raised RetryError
     steps_at_failure |-> << >>,  \* steps_completed when it did
     disable_calls    |-> 0,      \* configure_mqtt(enable=False) calls issued
     rollback_raised  |-> FALSE,  \* that call raised
     rpc_failed       |-> {},     \* optional steps whose device call failed
     notified         |-> 0,      \* on_device_complete calls
     connect_calls    |-> 0,      \* connect_to_shelly calls made
     retried          |->         \* retry_operation calls, by operation
         [op \in {"connect", "get_info", "config_mqtt", "config_wifi"} |-> 0],
     invoked          |->         \* device calls made outside retry_operation
         [op \in {"disable_cloud", "set_device_name", "set_discoverable",
                  "reboot"} |-> 0]]

Dev == device[1]

\* one entry of the log: what was done, for which candidate (1-based, 0 when
\* none), and a number (seconds slept, records written)
Did(ev, k, n) == [ev |-> ev, k |-> k, n |-> n]

\* one call of ShellyAPI._rpc_call: the data, a ShellyAPIError, or an error
\* raised outside the requests handlers (e.g. "error" in data on a null body)
RpcOutcomes ==
    {Returned("data")}
    \cup {Raised(e) : e \in RpcErrors}
    \cup {Raised([type |-> "TypeError",
                  msg |-> <<"argument of type 'NoneType' is not iterable">>])}

\* ShellyAPI.disable_cloud and ShellyAPI.reboot: try: _rpc_call(...); return True
\* except ShellyAPIError: return True
SwallowApiError(r) ==
    IF r.kind = "return" \/ r.error[1].type = "ShellyAPIError"
    THEN Returned("True")
    ELSE r

\* ShellyAPI.configure_mqtt: _rpc_call's data, or its exception
configure_mqtt(r) == IF r.kind = "return" THEN Returned("True") ELSE r

\* ------------------------------------------------------ _scan_network
\* what the host at prefix.h does when probed: no answer to the ping, a ping
\* that outlives its timeout (subprocess.TimeoutExpired), an answer but no
\* listener on the broker port, an answer and a listener
HostKinds == {"silent", "slow", "closed", "broker"}

\* a worker between tasks
Idle == [host |-> 0, at |-> "idle"]

\* _scan_network not running
SweepIdle ==
    [pc |-> "idle", hosts |-> << >>, next |-> 1,
     worker |-> [w \in 1..SweepWorkers |-> Idle],
     found_broker |-> 0, probed |-> {}, result |-> 0,
     populate |-> FALSE, taken |-> << >>]

\* _scan_network entered: found_broker = None, executor.map has queued
\* check_host for every address, in order
SweepCall(hosts) == [SweepIdle EXCEPT !.pc = "running", !.hosts = hosts]

\* _populate_arp_table entered with a local address: executor.map has queued
\* _ping_host for every address, in order
PopulateCall(hosts) == [SweepCall(hosts) EXCEPT !.populate = TRUE]

\* mutant: the task at the head of the queue stays there
NextTask_Peek(s) == s.next

\* the queue of executor.map: a task handed to a worker leaves the queue
NextTask(s) == s.next + 1

\* mutant: check_host never looks at the flag
EarlyReturn_Never(s) == FALSE

\* check_host: if found_broker: return   (_ping_host has no such test, and
\* during the population the flag is never set)
EarlyReturn(s) == s.found_broker # 0

\* what the sweep leaves alone
sweep_rest ==
    <<pc, retry, networks, idx, device, api_bound, results, session,
      checkpoint, current_number, original_network, now, obs, log, disc,
      loaded, files, recon, app>>

\* a worker thread takes the next queued task
worker_take(w) ==
    /\ sweep.pc = "running"
    /\ sweep.worker[w] = Idle
    /\ sweep.next <= Len(sweep.hosts)
    /\ sweep' = [sweep EXCEPT !.worker[w] = [host |-> sweep.next, at |-> "enter"],
                              !.taken = Append(@, sweep.next),
                              !.next = NextTask(sweep)]
    /\ UNCHANGED sweep_rest

\* check_host: if found_broker: return
check_host_enter(w) ==
    /\ sweep.worker[w].at = "enter"
    /\ sweep' = [sweep EXCEPT !.worker[w] =
                    IF EarlyReturn(sweep) THEN Idle
                    ELSE [@ EXCEPT !.at = "ping"]]
    /\ UNCHANGED sweep_rest

\* check_host: subprocess.run(ping, timeout=1); returncode 0 goes on to the
\* connection check, anything else (and except Exception: pass) ends the task.
\* _ping_host: the same ping, and nothing after it
check_host_ping(w) ==
    /\ sweep.worker[w].at = "ping"
    /\ LET h == sweep.worker[w].host
       IN  sweep' = [sweep EXCEPT
                       !.probed = @ \cup {h},
                       !.worker[w] =
                          IF ~sweep.populate
                             /\ sweep.hosts[h] \in {"closed", "broker"}
                          THEN [@ EXCEPT !.at = "verify"]
                          ELSE Idle]
    /\ UNCHANGED sweep_rest

\* verify_broker_connection: the TCP connect to port 1883 succeeds
Accepts(kind) == kind = "broker"

\* check_host: if self._verify_hostname(ip, hostname): found_broker = ...
check_host_verify(w) ==
    /\ sweep.worker[w].at = "verify"
    /\ sweep' = [sweep EXCEPT !.worker[w] =
                    IF Accepts(sweep.hosts[sweep.worker[w].host])
                    THEN [@ EXCEPT !.at = "assign"]
                    ELSE Idle]
    /\ UNCHANGED sweep_rest

\* check_host: the assignment to the nonlocal found_broker
check_host_assign(w) ==
    /\ sweep.worker[w].at = "assign"
    /\ sweep' = [sweep EXCEPT !.found_broker = sweep.worker[w].host,
                              !.worker[w] = Idle]
    /\ UNCHANGED sweep_rest

\* mutant: the caller goes on as soon as the queue is empty
Joined_QueueEmpty(s) == s.next > Len(s.hosts)

\* list(executor.map(...)) and the end of the with block: every task is done
Joined(s) ==
    /\ s.next > Len(s.hosts)
    /\ \A w \in 1..SweepWorkers : s.worker[w] = Idle

\* return found_broker
scan_network_return ==
    /\ sweep.pc = "running"
    /\ Joined(sweep)
    /\ sweep' = [sweep EXCEPT !.pc = "done", !.result = sweep.found_broker]
    /\ UNCHANGED sweep_rest

\* ------------------------------------------------------------ discover
\* IPv4 addresses are the sequences of their four numbers
SampleAddresses ==
    {<<192, 168, 1, 50>>, <<127, 0, 0, 1>>, <<0, 0, 0, 0>>, <<169, 254, 7, 7>>}

\* DiscoveredBroker(ip=..., method=...)
DiscoveredBroker(ip, method) == [ip |-> ip, method |-> method]

\* discover not running
DiscIdle ==
    [pc |-> "idle", tried |-> << >>, faults |-> 0, result |-> None,
     raised |-> FALSE, mac |-> None]

\* discover(hostname) entered
DiscoverCall == [DiscIdle EXCEPT !.pc = "ping"]

\* what a strategy's calls can do: an exception of some class, nothing, or
\* an address ("answer": the address printed by ping, returned by the
\* resolver, advertised by the service)
Errors == {"TimeoutExpired", "gaierror", "ImportError", "OSError"}
Failed(error) == [kind |-> error, ip |-> << >>]
Nothing == [kind |-> "nothing", ip |-> << >>]
Answer(ip) == [kind |-> "answer", ip |-> ip]

\* the exception class each strategy names before its `except Exception`
NamedError(strategy) ==
    CASE strategy = "ping"     -> "TimeoutExpired"
      [] strategy = "mdns"     -> "gaierror"
      [] strategy = "zeroconf" -> "ImportError"
      [] OTHER                 -> "none"

\* mutant: only the named class is handled
Handles_NamedOnly(strategy, error) == error = NamedError(strategy)

\* except <named>: ... except Exception: ...  -- every class is handled
Handles(strategy, error) == error = NamedError(strategy) \/ error \in Errors

\* if not ip.startswith('127.') and not ip.startswith('0.')
Usable(ip) == ip[1] # 127 /\ ip[1] # 0

\* _try_ping_discovery after subprocess.run: returncode 0 and a first
\* address in the output that is usable
ping_result(o) ==
    IF o.kind = "answer" /\ Usable(o.ip)
    THEN Some(DiscoveredBroker(o.ip, "ping")) ELSE None

\* mutant: discover goes on after a successful name probe
After_ProbeGoesOn(strategy, found) ==
    IF found /\ strategy # "ping" THEN "done"
    ELSE CASE strategy = "ping"     -> "mdns"
           [] strategy = "mdns"     -> "zeroconf"
           [] strategy = "zeroconf" -> "network_scan"
           [] OTHER                 -> "done"

\* discover: if result: return result; otherwise the next strategy
After(strategy, found) ==
    IF found THEN "done"
    ELSE CASE strategy = "ping"     -> "mdns"
           [] strategy = "mdns"     -> "zeroconf"
           [] strategy = "zeroconf" -> "network_scan"
           [] OTHER                 -> "done"

\* one strategy of discover has run with outcome o and result r (Optional)
Tried(d, strategy, o, r) ==
    IF o.kind \in Errors /\ ~Handles(strategy, o.kind)
    THEN [d EXCEPT !.tried = Append(@, [name |-> strategy, found |-> FALSE]),
                   !.raised = TRUE, !.pc = "done"]
    ELSE [d EXCEPT !.tried = Append(@, [name |-> strategy, found |-> r # None]),
                   !.faults = IF o.kind \in Errors THEN @ + 1 ELSE @,
                   !.result = IF r # None THEN r ELSE @,
                   !.pc = After(strategy, r # None)]

\* what discover leaves alone
discover_rest ==
    <<pc, retry, networks, idx, device, api_bound, results, session,
      checkpoint, current_number, original_network, now, obs, log, loaded,
      files, recon, app>>

\* _try_ping_discovery: ping <hostname>.local, timeout 5
try_ping_discovery ==
    /\ disc.pc = "ping"
    /\ \E o \in {Failed("TimeoutExpired"), Failed("OSError"), Nothing}
                 \cup {Answer(ip) : ip \in SampleAddresses} :
         disc' = Tried(disc, "ping", o, ping_result(o))
    /\ UNCHANGED <<sweep, discover_rest>>

\* _try_mdns: socket.gethostbyname(<hostname>.local)
try_mdns ==
    /\ disc.pc = "mdns"
    /\ \E o \in {Failed("gaierror"), Failed("OSError")}
                 \cup {Answer(ip) : ip \in SampleAddresses} :
         disc' = Tried(disc, "mdns", o,
                       IF o.kind = "answer"
                       THEN Some(DiscoveredBroker(o.ip, "mDNS")) ELSE None)
    /\ UNCHANGED <<sweep, discover_rest>>

\* _try_zeroconf: no Zeroconf in globals(), an error, nothing heard in 5 s,
\* or listener.brokers[0]
try_zeroconf ==
    /\ disc.pc = "zeroconf"
    /\ \E o \in {Failed("ImportError"), Failed("OSError"), Nothing}
                 \cup {Answer(ip) : ip \in SampleAddresses} :
         disc' = Tried(disc, "zeroconf", o,
                       IF o.kind = "answer"
                       THEN Some(DiscoveredBroker(o.ip, "Zeroconf")) ELSE None)
    /\ UNCHANGED <<sweep, discover_rest>>

\* a line of `arp -a`: the address, the vendor part and the whole of the
\* hardware address, and whether the host accepts a connection on port 1883
ArpEntries ==
    {[ip |-> <<192, 168, 1, 50>>, vendor |-> "b8:27:eb", hex |-> "b827eb000050",
      accepts |-> TRUE],
     [ip |-> <<192, 168, 1, 51>>, vendor |-> "dc:a6:32", hex |-> "dca632000051",
      accepts |-> FALSE],
     [ip |-> <<192, 168, 1, 77>>, vendor |-> "a8:03:2a", hex |-> "a8032abe54d1",
      accepts |-> FALSE]}
ArpTables ==
    {<< >>} \cup {<<e>> : e \in ArpEntries}
            \cup {<<e, f>> : e \in ArpEntries, f \in ArpEntries}

pi_mac_prefixes == {"b8:27:eb", "dc:a6:32", "e4:5f:01", "28:cd:c1"}

\* whether the loop of _scan_arp_table returns at this line
ArpLineMatches(e, target_mac) ==
    IF target_mac # None
    THEN e.hex = target_mac[1]
    ELSE e.vendor \in pi_mac_prefixes /\ e.accepts

\* _scan_arp_table(hostname, mac_address) on the lines of `arp -a`: the first
\* line that matches
scan_arp_table(table, target_mac) ==
    LET hits == {p \in 1..Len(table) : ArpLineMatches(table[p], target_mac)}
    IN  IF hits = {} THEN None
        ELSE LET p == CHOOSE q \in hits : \A r \in hits : q <= r
             IN  Some(DiscoveredBroker(table[p].ip,
                        IF target_mac # None THEN "ARP MAC match" ELSE "ARP scan"))

\* the machine's own address, as _get_local_ip finds it
local_ip == <<192, 168, 1, 10>>

\* _try_network_scan: no local address ends it; otherwise the neighbor table,
\* and when that finds nothing the sweep of the local /24 is started
try_network_scan ==
    /\ disc.pc = "network_scan"
    /\ \/ \* _get_local_ip: except Exception: return None
          /\ disc' = IF Handles("local_ip", "OSError")
                     THEN [disc EXCEPT !.faults = @ + 1, !.pc = "done"]
                     ELSE [disc EXCEPT !.raised = TRUE, !.pc = "done"]
          /\ sweep' = sweep
       \/ \E o \in {Failed("OSError"), Nothing}, table \in ArpTables :
            LET r == IF o.kind = "nothing" THEN scan_arp_table(table, None)
                     ELSE None
                d == Tried(disc, "arp", o, r)
            IN  IF r # None \/ d.raised
                THEN /\ disc' = d
                     /\ sweep' = sweep
                ELSE /\ disc' = [d EXCEPT
                             !.tried = Append(@, [name |-> "sweep", found |-> FALSE]),
                             !.pc = "sweep"]
                     /\ \E hosts \in [1..SweepHosts -> HostKinds] :
                          sweep' = SweepCall(hosts)
    /\ UNCHANGED discover_rest

\* _scan_network has returned: discover returns its result
network_scan_return ==
    /\ disc.pc = "sweep"
    /\ sweep.pc = "done"
    /\ LET found == sweep.result # 0
       IN  disc' = [disc EXCEPT
                      !.tried[Len(disc.tried)].found = found,
                      !.result = IF found
                                 THEN Some(DiscoveredBroker(
                                        SubSeq(local_ip, 1, 3) \o <<sweep.result>>,
                                        "Deep Network Scan"))
                                 ELSE @,
                      !.pc = "done"]
    /\ UNCHANGED <<sweep, discover_rest>>

\* -------------------------------------------------------- provision_batch
\* an empty working directory
NoFiles == [path \in {} |-> None]

\* mutant: one file per record count
checkpoint_path_PerDevice(s) ==
    <<"rcc_checkpoint_", ToString(s.session_id), "_", ToString(Len(s.devices)),
      ".json">>

\* f"rcc_checkpoint_{self.session.session_id}.json"
checkpoint_path(s) == <<"rcc_checkpoint_", ToString(s.session_id), ".json">>

\* with open(filepath, 'w') as f: json.dump(data, f): the file is created or
\* truncated, and holds the one document
WriteFile(fs, path, data) ==
    [q \in DOMAIN fs \cup {path} |-> IF q = path THEN data ELSE fs[q]]

\* _provision_devices before provision_batch has returned
ReconIdle ==
    [success_count |-> 0, fail_count |-> 0, k |-> 0, i |-> 0,
     calls |-> << >>, slept |-> 0, summary |-> << >>]

\* ProvisionSession.save_checkpoint: the document json.dump writes
save_checkpoint(s) ==
    [session_id   |-> s.session_id,
     broker_host  |-> s.broker_host,
     broker_port  |-> s.broker_port,
     started_at   |-> s.started_at,
     completed_at |-> s.completed_at,
     devices      |-> s.devices]

\* ------------------------------------------------- the checkpoint file
\* The model keeps the reading of the clock where the code keeps its text
\* (strftime, isoformat): the text of a reading, and the reading of a text.
MaxClock == MaxDevices + 3
TimeText(n) == <<ToString(n)>>
Instant(text) == CHOOSE n \in 0..MaxClock : TimeText(n) = text

\* JSON values as json.dump writes them: null, a string, a number
JsonNull == [t |-> "null", s |-> << >>, n |-> 0]
JsonString(text) == [t |-> "string", s |-> text, n |-> 0]
JsonNumber(n) == [t |-> "number", s |-> << >>, n |-> n]
\* None becomes null, a str becomes a string
JsonOptional(o) == IF o = None THEN JsonNull ELSE JsonString(o[1])

\* json.dump of one asdict(d)
JsonDevice(d) ==
    [mac             |-> JsonString(<<d.mac>>),
     ap_ssid         |-> JsonString(d.ap_ssid),
     model           |-> JsonString(<<d.model>>),
     state           |-> JsonString(<<d.state>>),
     assigned_name   |-> JsonOptional(d.assigned_name),
     final_ip        |-> IF d.final_ip = None THEN JsonNull
                         ELSE JsonString(<<d.final_ip[1]>>),
     steps_completed |-> [p \in 1..Len(d.steps_completed) |->
                            JsonString(<<d.steps_completed[p]>>)],
     error_message   |-> JsonOptional(d.error_message),
     timestamp       |-> JsonString(TimeText(d.timestamp))]

\* json.dump(data, f, indent=2): the document in the file
json_dump(data) ==
    [session_id   |-> JsonString(TimeText(data.session_id)),
     broker_host  |-> JsonString(<<data.broker_host>>),
     broker_port  |-> JsonNumber(data.broker_port),
     started_at   |-> JsonString(TimeText(data.started_at)),
     completed_at |-> IF data.completed_at = None THEN JsonNull
                      ELSE JsonString(TimeText(data.completed_at[1])),
     devices      |-> [k \in 1..Len(data.devices) |-> JsonDevice(data.devices[k])]]

\* json.load of a string or null: the str, or None
PyOptional(j) == IF j.t = "null" THEN None ELSE Some(j.s)

\* ProvisionedDevice(**d) for one object of the "devices" array
ProvisionedDevice(j) ==
    [mac             |-> j.mac.s[1],
     ap_ssid         |-> j.ap_ssid.s,
     model           |-> j.model.s[1],
     state           |-> j.state.s[1],
     assigned_name   |-> PyOptional(j.assigned_name),
     final_ip        |-> IF j.final_ip.t = "null" THEN None
                         ELSE Some(j.final_ip.s[1]),
     steps_completed |-> [p \in 1..Len(j.steps_completed) |->
                            j.steps_completed[p].s[1]],
     error_message   |-> PyOptional(j.error_message),
     timestamp       |-> Instant(j.timestamp.s)]

\* mutant: started_at keeps the default of the constructor, datetime.now()
load_checkpoint_FreshStart(doc) ==
    [session_id   |-> Instant(doc.session_id.s),
     broker_host  |-> doc.broker_host.s[1],
     broker_port  |-> doc.broker_port.n,
     devices      |-> [k \in 1..Len(doc.devices) |-> ProvisionedDevice(doc.devices[k])],
     started_at   |-> now,
     completed_at |-> IF doc.completed_at.t = "null" THEN None
                      ELSE Some(Instant(doc.completed_at.s))]

\* ProvisionSession.load_checkpoint: cls(session_id, broker_host, broker_port),
\* then started_at, completed_at and the devices
load_checkpoint(doc) ==
    [session_id   |-> Instant(doc.session_id.s),
     broker_host  |-> doc.broker_host.s[1],
     broker_port  |-> doc.broker_port.n,
     devices      |-> [k \in 1..Len(doc.devices) |-> ProvisionedDevice(doc.devices[k])],
     started_at   |-> Instant(doc.started_at.s),
     completed_at |-> IF doc.completed_at.t = "null" THEN None
                      ELSE Some(Instant(doc.completed_at.s))]

\* ----------------------------------------------------------- RCCApp.run
\* SecureConfig() as constructed: BrokerConfig(), WiFiConfig()
NewConfig ==
    [hostname |-> "raspi-RCC.local", ip |-> None, username |-> "",
     password |-> "", ssid |-> "", wifi_password |-> ""]

\* run not called
AppIdle ==
    [pc |-> "idle", config |-> NewConfig, configured |-> FALSE, last |-> "",
     did |-> "", exit |-> "", held |-> FALSE, code |-> 0]

\* RCCApp().run() entered
AppCall == [AppIdle EXCEPT !.pc = "run"]

\* BrokerConfig.is_configured: bool(self.address and self.username and
\* self.password)
broker_is_configured(c) == address(c) # "" /\ c.username # "" /\ c.password # ""

\* WiFiConfig.is_configured: bool(self.ssid and self.password)
wifi_is_configured(c) == c.ssid # "" /\ c.wifi_password # ""

\* SecureConfig.is_ready
is_ready(c) == broker_is_configured(c) /\ wifi_is_configured(c)

\* mutant: only the broker's credentials are cleared
clear_credentials_BrokerOnly(c) == [c EXCEPT !.password = "", !.username = ""]

\* SecureConfig.clear_credentials
clear_credentials(c) ==
    [c EXCEPT !.password = "", !.username = "", !.ssid = "", !.wifi_password = ""]

\* what the operator can type at the prompts of _setup_configuration and what
\* the network does: the association with the target network succeeds, fails
\* and the operator continues, or fails and the operator stops; the server
\* is discovered or not
SetupInputs ==
    [ssid : {"", "TargetWiFi"}, password : {"", "wifi-secret"},
     connect : {"connected", "continue", "stop"},
     found : {None, Some("192.168.1.50")}]

\* _setup_configuration: the assignments it makes to the configuration
setup_configuration(c, in) ==
    LET typed == [c EXCEPT !.ssid = in.ssid, !.wifi_password = in.password]
    IN  IF in.connect = "stop" THEN typed
        ELSE [typed EXCEPT !.ip = IF in.found # None THEN in.found ELSE @]

\* what run leaves alone
app_rest ==
    <<pc, retry, networks, idx, device, api_bound, results, session,
      checkpoint, current_number, original_network, now, obs, log, disc,
      sweep, loaded, files, recon>>

\* run: if not self.config.is_ready(): self._setup_configuration()
run_enter ==
    /\ app.pc = "run"
    /\ app' = [app EXCEPT !.pc = IF ~is_ready(app.config) THEN "setup" ELSE "menu"]
    /\ UNCHANGED app_rest

\* _setup_configuration, called from run or from _provision_devices; both
\* go on to the menu
app_setup ==
    /\ app.pc = "setup"
    /\ \E in \in SetupInputs :
         app' = [app EXCEPT !.config = setup_configuration(@, in),
                            !.configured = in.connect # "stop",
                            !.pc = "menu"]
    /\ UNCHANGED app_rest

\* choice "1": _discover_broker sets broker.ip to the address discovered or
\* to the one typed in and verified, or leaves it
choose_discover ==
    /\ app.pc = "menu"
    /\ \E found \in {None, Some("192.168.1.50")} :
         app' = [app EXCEPT !.config.ip = IF found # None THEN found ELSE @,
                            !.last = "1", !.did = "discover"]
    /\ UNCHANGED app_rest

\* choice "2": _scan_devices shows the devices in range
choose_scan ==
    /\ app.pc = "menu"
    /\ app' = [app EXCEPT !.last = "2", !.did = "scan"]
    /\ UNCHANGED app_rest

\* choice "3": _provision_devices. Not ready: "Configuration incomplete",
\* _setup_configuration, return. Ready: discovery when broker.ip is unset,
\* the provision menu, the scan, the selection, the confirmation and
\* provision_batch, each of which can send the operator back to the menu.
choose_provision ==
    /\ app.pc = "menu"
    /\ IF ~is_ready(app.config)
       THEN app' = [app EXCEPT !.last = "3", !.did = "setup", !.pc = "setup"]
       ELSE \E found \in {None, Some("192.168.1.50")},
               went \in {"back", "scan", "provision_batch"} :
              LET ip == IF app.config.ip # None THEN app.config.ip ELSE found
              IN  app' = [app EXCEPT !.last = "3",
                                     !.config.ip = ip,
                                     !.did = IF ip = None THEN "discover" ELSE went]
    /\ UNCHANGED app_rest

\* choice "4": _reset_devices
choose_reset ==
    /\ app.pc = "menu"
    /\ app' = [app EXCEPT !.last = "4", !.did = "reset"]
    /\ UNCHANGED app_rest

\* choice "Q": break
choose_quit ==
    /\ app.pc = "menu"
    /\ app' = [app EXCEPT !.last = "Q", !.did = "", !.pc = "quit"]
    /\ UNCHANGED app_rest

\* Ctrl-C anywhere inside run's try block, the _cleanup() after the loop
\* included: except KeyboardInterrupt
app_interrupt ==
    /\ app.pc \in {"run", "setup", "menu", "quit"}
    /\ app' = [app EXCEPT !.pc = "interrupted", !.exit = "interrupt"]
    /\ UNCHANGED app_rest

\* an exception no menu action handles itself (a prompt on a closed input,
\* an error outside the action's own try block): except Exception
app_exception ==
    /\ app.pc \in {"setup", "menu"}
    /\ app' = [app EXCEPT !.pc = "crashed", !.exit = "exception"]
    /\ UNCHANGED app_rest

\* _cleanup() and the return that follows it
Cleanup(a, code) ==
    [a EXCEPT !.config = clear_credentials(@),
              !.held = wifi_is_configured(a.config),
              !.code = code, !.pc = "returned"]

\* after the loop: self._cleanup(); "Goodbye!"; return 0
cleanup_quit ==
    /\ app.pc = "quit"
    /\ app' = [Cleanup(app, 0) EXCEPT !.exit = "quit"]
    /\ UNCHANGED app_rest

\* in either handler: self._cleanup(); return 1
cleanup_handler ==
    /\ app.pc \in {"interrupted", "crashed"}
    /\ app' = Cleanup(app, 1)
    /\ UNCHANGED app_rest

\* Ctrl-C inside a handler, before its _cleanup() has run: the
\* KeyboardInterrupt leaves run and main
interrupt_in_handler ==
    /\ app.pc \in {"interrupted", "crashed"}
    /\ app' = [app EXCEPT !.pc = "unwinding"]
    /\ UNCHANGED app_rest

\* the interpreter exits: atexit.register(self.clear_credentials)
atexit_clear ==
    /\ app.pc \in {"returned", "unwinding"}
    /\ app' = [app EXCEPT !.config = clear_credentials(@), !.pc = "terminated"]
    /\ UNCHANGED app_rest

Init ==
    /\ pc = "batch"
    /\ retry = RetryIdle
    /\ \E n \in 0..MaxDevices : networks = [k \in 1..n |-> Network(k)]
    /\ idx = 0
    /\ device = None
    /\ api_bound = FALSE
    /\ results = << >>
    /\ session = None
    /\ checkpoint = None
    /\ current_number = 1
    /\ original_network = None
    /\ now = 0
    /\ obs = NewObs
    /\ log = << >>
    /\ disc = DiscIdle
    /\ sweep = SweepIdle
    /\ loaded = None
    /\ files = NoFiles
    /\ recon = ReconIdle
    /\ app = AppIdle

\* provision_batch up to its loop: the session, the current network, results
provision_batch_start ==
    /\ pc = "batch"
    /\ session' = Some([session_id   |-> now,
                        broker_host  |-> address(broker),
                        broker_port  |-> broker.port,
                        devices      |-> << >>,
                        started_at   |-> now + 1,
                        completed_at |-> None])
    /\ now' = now + 2
    /\ \E cur \in {None, Some("HomeWiFi")} : original_network' = cur
    /\ results' = << >>
    /\ idx' = 0
    /\ log' = << >>
    /\ pc' = "loop"
    /\ UNCHANGED <<retry, networks, device, api_bound, checkpoint,
                   current_number, obs>>
    /\ UNCHANGED <<disc, sweep, loaded, files, recon, app>>

\* the loop body up to provision_device's try: progress_callback, the name,
\* the record
provision_device_enter(device_name) ==
    /\ pc = "loop"
    /\ idx < Len(networks)
    /\ LET network == networks[idx + 1]
           name == IF device_name = None
                   THEN get_next_name(current_number)
                   ELSE device_name[1]
       IN  /\ current_number' = IF device_name = None
                                THEN NextNumber(current_number)
                                ELSE current_number
           /\ device' = Some(NewDevice(network, name, now))
    /\ now' = now + 1
    /\ api_bound' = FALSE
    /\ obs' = NewObs
    /\ log' = log \o <<Did("progress", idx + 1, Len(networks)),
                        Did("name", idx + 1, current_number)>>
    /\ pc' = "connect"
    /\ UNCHANGED <<retry, networks, idx, results, session, checkpoint,
                   original_network>>
    /\ UNCHANGED <<disc, sweep, loaded, files, recon, app>>

\* Step 1: state CONNECTING, retry_operation(connect_to_shelly, linear, 5.0)
step_connect ==
    /\ pc = "connect"
    /\ device' = Some([Dev EXCEPT !.state = "connecting"])
    /\ retry' = RetryCall("connect", default_max_retries, connect_delay_base,
                          "linear", TRUE)
    /\ obs' = [obs EXCEPT !.retried["connect"] = @ + 1]
    /\ pc' = "retry"
    /\ UNCHANGED <<networks, idx, api_bound, results, session, checkpoint,
                   current_number, original_network, now>>
    /\ UNCHANGED <<log, disc, sweep, loaded, files, recon, app>>

\* mutant: a step that succeeded is not written down
Record_Skipped(d, step) == d

\* device.steps_completed.append(step)
Record(d, step) == [d EXCEPT !.steps_completed = Append(@, step)]

\* mutant: every failure is handled as retry exhaustion is
Catches_AllRollback(e) == "rollback"

\* except RetryError: ... self._rollback_device(...)   except Exception: ...
\* (the handler that takes the exception, by where it ends)
Catches(e) == IF e.type = "RetryError" THEN "rollback" ELSE "complete"

\* mutant: the handler leaves the state where the step left it
MarkFailed_StateKept(d) == d

\* device.state = ProvisionState.FAILED.value
MarkFailed(d) == [d EXCEPT !.state = "failed"]

\* mutant: the rollback takes back the steps it undoes
RolledBack_StepsUndone(d) ==
    [d EXCEPT !.state = "rolled_back",
              !.steps_completed = SelectSeq(@, LAMBDA x : x # "config_mqtt")]

\* device.state = ProvisionState.ROLLED_BACK.value
RolledBack(d) == [d EXCEPT !.state = "rolled_back"]

StepReturned(operation) ==
    /\ pc = "retried"
    /\ retry.operation = operation
    /\ retry.outcome.kind = "return"

\* if not success: raise Exception(...), caught by `except Exception`
connect_failed ==
    /\ StepReturned("connect")
    /\ retry.outcome.value = "False"
    /\ LET e == PyException(<<"Failed to connect to Shelly AP">>)
       IN  /\ device' = Some([MarkFailed(Dev) EXCEPT
                                      !.error_message = Some(Str(e))])
           /\ pc' = Catches(e)
    /\ obs' = [obs EXCEPT !.connect_calls = retry.calls]
    /\ retry' = RetryIdle
    /\ UNCHANGED <<networks, idx, api_bound, results, session, checkpoint,
                   current_number, original_network, now>>
    /\ UNCHANGED <<log, disc, sweep, loaded, files, recon, app>>

\* connect_ap recorded; Step 2: state GET_INFO, api bound, retry get_device_info
connect_done ==
    /\ StepReturned("connect")
    /\ retry.outcome.value # "False"
    /\ device' = Some([Record(Dev, "connect_ap") EXCEPT
                         !.state = "getting_info"])
    /\ api_bound' = TRUE
    /\ obs' = [obs EXCEPT !.connect_calls = retry.calls,
                          !.retried["get_info"] = @ + 1]
    /\ retry' = RetryCall("get_info", default_max_retries, retry_delay_base,
                          "exponential", TRUE)
    /\ pc' = "retry"
    /\ UNCHANGED <<networks, idx, results, session, checkpoint,
                   current_number, original_network, now>>
    /\ UNCHANGED <<log, disc, sweep, loaded, files, recon, app>>

\* mac and model from the device; get_info recorded; Step 3: state CONFIG_MQTT
get_info_done ==
    /\ StepReturned("get_info")
    /\ LET device_info == DeviceInfo(idx + 1)
       IN  device' = Some([Record(Dev, "get_info") EXCEPT
                             !.mac = device_info.mac,
                             !.model = friendly_name(device_info),
                             !.state = "config_mqtt"])
    /\ retry' = RetryCall("config_mqtt", default_max_retries, retry_delay_base,
                          "exponential", TRUE)
    /\ obs' = [obs EXCEPT !.retried["config_mqtt"] = @ + 1]
    /\ pc' = "retry"
    /\ UNCHANGED <<networks, idx, api_bound, results, session, checkpoint,
                   current_number, original_network, now>>
    /\ UNCHANGED <<log, disc, sweep, loaded, files, recon, app>>

\* config_mqtt recorded; Step 4: state CONFIG_WIFI
config_mqtt_done ==
    /\ StepReturned("config_mqtt")
    /\ device' = Some([Record(Dev, "config_mqtt") EXCEPT
                         !.state = "config_wifi"])
    /\ retry' = RetryCall("config_wifi", default_max_retries, retry_delay_base,
                          "exponential", TRUE)
    /\ obs' = [obs EXCEPT !.retried["config_wifi"] = @ + 1]
    /\ pc' = "retry"
    /\ UNCHANGED <<networks, idx, api_bound, results, session, checkpoint,
                   current_number, original_network, now>>
    /\ UNCHANGED <<log, disc, sweep, loaded, files, recon, app>>

\* config_wifi recorded
config_wifi_done ==
    /\ StepReturned("config_wifi")
    /\ device' = Some(Record(Dev, "config_wifi"))
    /\ retry' = RetryIdle
    /\ pc' = "disable_cloud"
    /\ UNCHANGED <<networks, idx, api_bound, results, session, checkpoint,
                   current_number, original_network, now, obs>>
    /\ UNCHANGED <<log, disc, sweep, loaded, files, recon, app>>

\* Step 5: api.disable_cloud() inside try/except Exception
step_disable_cloud ==
    /\ pc = "disable_cloud"
    /\ IF disable_shelly_cloud
       THEN \E r \in RpcOutcomes :
              LET done == SwallowApiError(r)
              IN  /\ device' = Some([Dev EXCEPT
                         !.state = "disable_cloud",
                         !.steps_completed =
                             IF done.kind = "return"
                             THEN Append(@, "disable_cloud") ELSE @])
                  /\ obs' = [obs EXCEPT
                               !.invoked["disable_cloud"] = @ + 1,
                               !.rpc_failed =
                                  IF r.kind = "raise"
                                  THEN @ \cup {"disable_cloud"} ELSE @]
       ELSE UNCHANGED <<device, obs>>
    /\ pc' = "rename"
    /\ UNCHANGED <<retry, networks, idx, api_bound, results, session,
                   checkpoint, current_number, original_network, now>>
    /\ UNCHANGED <<log, disc, sweep, loaded, files, recon, app>>

\* Step 6: set_device_name then set_discoverable inside try/except Exception
step_rename ==
    /\ pc = "rename"
    /\ \E r1 \in RpcOutcomes, r2 \in RpcOutcomes :
         \* set_discoverable is only called when set_device_name returned
         /\ r1.kind = "raise" => r2 = Returned("data")
         /\ LET ok == r1.kind = "return" /\ r2.kind = "return"
            IN  /\ device' = Some([Dev EXCEPT
                       !.state = "rename",
                       !.steps_completed =
                           IF ok THEN Append(@, "rename") ELSE @])
                /\ obs' = [obs EXCEPT
                             !.invoked["set_device_name"] = @ + 1,
                             !.invoked["set_discoverable"] =
                                IF r1.kind = "return" THEN @ + 1 ELSE @,
                             !.rpc_failed =
                                IF ok THEN @ ELSE @ \cup {"rename"}]
    /\ pc' = "reboot"
    /\ UNCHANGED <<retry, networks, idx, api_bound, results, session,
                   checkpoint, current_number, original_network, now>>
    /\ UNCHANGED <<log, disc, sweep, loaded, files, recon, app>>

\* mutant: the record is handed back without its final state
AfterReboot_StateKept(d) == [d EXCEPT !.steps_completed = Append(@, "reboot")]

\* device.steps_completed.append("reboot"); device.state = COMPLETED
AfterReboot(d) ==
    [d EXCEPT !.steps_completed = Append(@, "reboot"), !.state = "completed"]

\* mutant: only the errors ShellyAPI.reboot swallows itself are let pass
RebootHandled_ApiErrorsOnly(r) == SwallowApiError(r).kind = "return"

\* try: api.reboot()  except Exception: pass
RebootHandled(r) == TRUE

\* Step 7: api.reboot() inside try/except Exception: pass; reboot recorded;
\* state COMPLETED (an error that got past the inner handler would reach
\* `except Exception` of the workflow)
step_reboot ==
    /\ pc = "reboot"
    /\ \E r \in RpcOutcomes :
         /\ device' = IF RebootHandled(r)
                      THEN Some(AfterReboot(Dev))
                      ELSE Some([MarkFailed(Dev) EXCEPT
                                   !.error_message = Some(Str(r.error[1]))])
         /\ obs' = [obs EXCEPT
                      !.invoked["reboot"] = @ + 1,
                      !.rpc_failed =
                         IF r.kind = "raise" THEN @ \cup {"reboot"} ELSE @]
    /\ pc' = "complete"
    /\ UNCHANGED <<retry, networks, idx, api_bound, results, session,
                   checkpoint, current_number, original_network, now>>
    /\ UNCHANGED <<log, disc, sweep, loaded, files, recon, app>>

\* mutant: the message of the RetryError is dropped
FailureMessage_Empty(e) == None

\* device.error_message = str(e)
FailureMessage(e) == Some(Str(e))

\* except RetryError: state FAILED, error_message, then the rollback
on_retry_error ==
    /\ pc = "retried"
    /\ retry.outcome.kind = "raise"
    /\ device' = Some([MarkFailed(Dev) EXCEPT
                         !.error_message = FailureMessage(retry.outcome.error[1])])
    /\ obs' = [obs EXCEPT !.exhausted = TRUE,
                          !.steps_at_failure = Dev.steps_completed]
    /\ retry' = RetryIdle
    /\ pc' = Catches(retry.outcome.error[1])
    /\ UNCHANGED <<networks, idx, api_bound, results, session, checkpoint,
                   current_number, original_network, now>>
    /\ UNCHANGED <<log, disc, sweep, loaded, files, recon, app>>

\* mutant: the broker configuration is disabled whenever the api exists
RollbackNeeded_Always(api, steps_completed) == api

\* if api and "config_mqtt" in device.steps_completed
RollbackNeeded(api, steps_completed) ==
    api /\ Contains(steps_completed, "config_mqtt")

\* _rollback_device(api if 'api' in dir() else None, device)
rollback_device ==
    /\ pc = "rollback"
    /\ IF RollbackNeeded(api_bound, Dev.steps_completed)
       THEN \E r \in RpcOutcomes :
              IF configure_mqtt(r).kind = "return"
              THEN /\ device' = Some(RolledBack(Dev))
                   /\ obs' = [obs EXCEPT !.disable_calls = @ + 1]
              ELSE \* except Exception: pass
                   /\ device' = device
                   /\ obs' = [obs EXCEPT !.disable_calls = @ + 1,
                                         !.rollback_raised = TRUE]
       ELSE /\ device' = Some(RolledBack(Dev))
            /\ obs' = obs
    /\ pc' = "complete"
    /\ UNCHANGED <<retry, networks, idx, api_bound, results, session,
                   checkpoint, current_number, original_network, now>>
    /\ UNCHANGED <<log, disc, sweep, loaded, files, recon, app>>

\* mutant: the batch stops at the first device that did not complete
NextIndex_StopOnFailure(i, total, state) ==
    IF state = "completed" THEN i + 1 ELSE total

\* the for loop moves to the next candidate whatever the record's state
NextIndex(i, total, state) == i + 1

\* mutant: the pause is skipped before the last candidate
PauseAfter_SkipsLast(i, total) == i < total - 2

\* if i < len(networks) - 1: time.sleep(2)
PauseAfter(i, total) == i < total - 1

\* mutant: the callback is invoked once the record is stored and saved
CompletionEvents_NotifyLast(k, n) ==
    <<Did("append", k, n), Did("checkpoint", k, n), Did("on_device_complete", k, 0)>>

\* provision_device: self.on_device_complete(device); return device, then
\* provision_batch: self.session.devices.append(device); save_checkpoint
CompletionEvents(k, n) ==
    <<Did("on_device_complete", k, 0), Did("append", k, n), Did("checkpoint", k, n)>>

\* on_device_complete(device); return device; results.append; the session's
\* list; the checkpoint; the pause between devices
device_complete ==
    /\ pc = "complete"
    /\ obs' = [obs EXCEPT !.notified = @ + 1]
    /\ results' = Append(results, Dev)
    /\ LET s == [session[1] EXCEPT !.devices = Append(@, Dev)]
       IN  /\ session' = Some(s)
           /\ checkpoint' = Some(save_checkpoint(s))
           /\ files' = WriteFile(files, checkpoint_path(s), save_checkpoint(s))
           /\ log' =
                   CompletionEvents(idx + 1, Len(s.devices))
                \o (IF PauseAfter(idx, Len(networks))
                    THEN <<Did("sleep", idx + 1, inter_device_delay)>>
                    ELSE << >>)
    /\ idx' = NextIndex(idx, Len(networks), Dev.state)
    /\ device' = None
    /\ pc' = "loop"
    /\ UNCHANGED <<retry, networks, api_bound, current_number,
                   original_network, now>>
    /\ UNCHANGED <<disc, sweep, loaded, recon, app>>

\* after the loop: completed_at, the last checkpoint, return results
provision_batch_finish ==
    /\ pc = "loop"
    /\ ~(idx < Len(networks))
    /\ LET s == [session[1] EXCEPT !.completed_at = Some(now)]
       IN  /\ session' = Some(s)
           /\ checkpoint' = Some(save_checkpoint(s))
           /\ files' = WriteFile(files, checkpoint_path(s), save_checkpoint(s))
    /\ now' = now + 1
    /\ log' = Append(log, Did("checkpoint", 0, Len(session[1].devices)))
    /\ pc' = "returned"
    /\ UNCHANGED <<retry, networks, idx, device, api_bound, results,
                   current_number, original_network, obs>>
    /\ UNCHANGED <<disc, sweep, loaded, recon, app>>

\* open(filepath, 'w') in save_checkpoint raises OSError, in the loop or after
\* it: provision_batch has no handler, _provision_devices catches Exception,
\* prints "Provisioning failed" and returns to the menu. The record was
\* appended to the session before the write; provision_batch's results list is
\* discarded with its frame.
save_checkpoint_raises ==
    /\ IF pc = "complete"
       THEN /\ session' = Some([session[1] EXCEPT !.devices = Append(@, Dev)])
            /\ log' = <<Did("on_device_complete", idx + 1, 0),
                        Did("append", idx + 1, Len(session[1].devices) + 1),
                        Did("raise", idx + 1, 0)>>
            /\ now' = now
       ELSE /\ pc = "loop"
            /\ ~(idx < Len(networks))
            /\ session' = Some([session[1] EXCEPT !.completed_at = Some(now)])
            /\ log' = Append(log, Did("raise", 0, 0))
            /\ now' = now + 1
    /\ obs' = NewObs
    /\ pc' = "menu"
    /\ UNCHANGED <<retry, networks, idx, device, api_bound, results,
                   checkpoint, current_number, original_network>>
    /\ UNCHANGED <<disc, sweep, loaded, files, recon, app>>

\* success_count = sum(1 for r in results if r.state == "completed")
CountCompleted(rs) ==
    Cardinality({k \in 1..Len(rs) : rs[k].state = "completed"})

\* where a KeyboardInterrupt can arrive inside provision_batch
BatchPcs ==
    {"loop", "connect", "retry", "retried", "disable_cloud", "rename",
     "reboot", "rollback", "complete"}

\* Ctrl-C during the batch: no handler in provision_device (except RetryError,
\* except Exception), provision_batch or _provision_devices (except Exception)
\* catches KeyboardInterrupt; RCCApp.run does: "Interrupted by user",
\* _cleanup(), return 1. The frames are unwound as they are: nothing is
\* appended, written or reconnected on the way.
interrupt ==
    /\ pc \in BatchPcs
    /\ log' = Append(log, Did("interrupt", IF device # None THEN idx + 1 ELSE 0, 0))
    /\ retry' = RetryIdle
    /\ obs' = NewObs
    /\ pc' = "exited"
    /\ UNCHANGED <<networks, idx, device, api_bound, results, session,
                   checkpoint, current_number, original_network, now>>
    /\ UNCHANGED <<disc, sweep, loaded, files, recon, app>>

\* _provision_devices after provision_batch returned: if self._original_wifi,
\* wifi_manager.connect(self._original_wifi, wifi_password), which returns a
\* bool; the address reconciliation follows a successful reconnect, the summary
\* follows in every case
main_reconnect ==
    /\ pc = "returned"
    /\ IF original_network # None
       THEN \E connected \in BOOLEAN :
              /\ log' = Append(log, Did("reconnect", 0, IF connected THEN 1 ELSE 0))
              /\ pc' = IF connected THEN "reconcile" ELSE "summary"
       ELSE /\ log' = log
            /\ pc' = "summary"
    /\ obs' = NewObs
    /\ recon' = [ReconIdle EXCEPT
                    !.success_count = CountCompleted(results),
                    !.fail_count = Len(results) - CountCompleted(results),
                    !.k = 1,
                    !.calls = [k \in 1..Len(results) |-> << >>]]
    /\ UNCHANGED <<retry, networks, idx, device, api_bound, results, session,
                   checkpoint, current_number, original_network, now>>
    /\ UNCHANGED <<disc, sweep, loaded, files, app>>

\* what is left alone after the batch has returned
after_batch_rest ==
    <<retry, networks, idx, device, api_bound, checkpoint, current_number,
      original_network, now, obs, log, disc, sweep, loaded, files, app>>

\* for device in results: if device.state == "completed": ... -- a record
\* that is not completed is passed over
reconcile_skip ==
    /\ pc = "reconcile"
    /\ recon.k <= Len(results)
    /\ results[recon.k].state # "completed"
    /\ recon' = [recon EXCEPT !.k = @ + 1]
    /\ UNCHANGED <<pc, results, session, after_batch_rest>>

\* the address a provisioned device gets on the target network
DeviceAddress(k) == "192.168.1." \o ToString(76 + k)

\* mutant: the loop has no break
KeepResolving_NoBreak(found_ip, i) == i + 1 < resolve_attempts

\* for i in range(5): ...; if found_ip: break
KeepResolving(found_ip, i) == found_ip = None /\ i + 1 < resolve_attempts

\* one round of the inner loop: resolve_hostname(device.assigned_name,
\* device.mac); break on an address, otherwise time.sleep(2); after the loop
\* the address found is stored in the record, which results and the session
\* share
reconcile_resolve ==
    /\ pc = "reconcile"
    /\ recon.k <= Len(results)
    /\ results[recon.k].state = "completed"
    /\ \E found_ip \in {None, Some(DeviceAddress(recon.k))} :
         LET called == [recon EXCEPT
                          !.calls[recon.k] =
                              Append(@, IF found_ip # None THEN "address" ELSE "none"),
                          !.slept = IF found_ip = None THEN @ + resolve_delay ELSE @]
         IN  IF KeepResolving(found_ip, recon.i)
             THEN /\ recon' = [called EXCEPT !.i = @ + 1]
                  /\ UNCHANGED <<results, session>>
             ELSE /\ recon' = [called EXCEPT !.i = 0, !.k = @ + 1]
                  /\ results' = IF found_ip # None
                                 THEN [results EXCEPT ![recon.k].final_ip = found_ip]
                                 ELSE results
                  /\ session' = IF found_ip # None
                                 THEN Some([session[1] EXCEPT
                                              !.devices[recon.k].final_ip = found_ip])
                                 ELSE session
    /\ UNCHANGED <<pc, after_batch_rest>>

\* the loop over results is done
reconcile_done ==
    /\ pc = "reconcile"
    /\ recon.k > Len(results)
    /\ pc' = "summary"
    /\ UNCHANGED <<recon, results, session, after_batch_rest>>

\* ip_addr = r.final_ip or "DHCP"; an address is shown with its first two
\* numbers masked
formatted_ip(r, k) ==
    IF r.final_ip = None \/ r.final_ip[1] = "" THEN "DHCP"
    ELSE IF r.final_ip[1] = DeviceAddress(k)
         THEN "***.***.1." \o ToString(76 + k)
         ELSE r.final_ip[1]

\* updated_summary and show_summary(success_count, fail_count, ...)
show_summary ==
    /\ pc = "summary"
    /\ recon' = [recon EXCEPT !.summary =
                    [k \in 1..Len(results) |->
                       [mac    |-> results[k].mac,
                        name   |-> results[k].assigned_name,
                        ip     |-> formatted_ip(results[k], k),
                        status |-> IF results[k].state = "completed"
                                   THEN "OK" ELSE "FAILED"]]]
    /\ pc' = "menu"
    /\ UNCHANGED <<results, session, after_batch_rest>>

Next ==
    \/ provision_batch_start
    \/ provision_device_enter(None)
    \/ step_connect
    \/ retry_attempt
    \/ retry_raise
    \/ connect_failed
    \/ connect_done
    \/ get_info_done
    \/ config_mqtt_done
    \/ config_wifi_done
    \/ step_disable_cloud
    \/ step_rename
    \/ step_reboot
    \/ on_retry_error
    \/ rollback_device
    \/ device_complete
    \/ provision_batch_finish

\* the batch when no write of the checkpoint fails and nobody interrupts
Spec == Init /\ [][Next]_vars

\* the same batch when every call made returns or raises within its
\* timeout: the step the program is at is eventually taken
FairSpec == Init /\ [][Next]_vars /\ WF_vars(Next)

\* the batch as RCCApp._provision_devices runs it: a checkpoint write can
\* fail, the operator can interrupt, and the network is reconnected after
\* the return
MainNext ==
    \/ Next
    \/ save_checkpoint_raises
    \/ interrupt
    \/ main_reconnect
    \/ reconcile_skip
    \/ reconcile_resolve
    \/ reconcile_done
    \/ show_summary

MainSpec == Init /\ [][MainNext]_vars

\* ------------------------------------------- a batch with one faulty device
\* What the collaborators do in the run of three candidates where every
\* MQTT.SetConfig call to the second device fails and every other call
\* succeeds: read off the calls the step just taken has made.
ScenarioCalls ==
    /\ \A p \in 1..Len(retry'.trace) :
         LET faulty == retry'.operation = "config_mqtt" /\ idx' + 1 = 2
         IN  /\ retry'.trace[p].ev = "raised" => faulty
             /\ retry'.trace[p].ev = "returned" =>
                   ~faulty /\ retry'.trace[p].err # <<"False">>
    /\ obs'.rpc_failed = {}
    /\ ~obs'.rollback_raised

\* provision_batch is called with three candidates
ScenarioInit ==
    /\ pc = "batch"
    /\ retry = RetryIdle
    /\ networks = [k \in 1..3 |-> Network(k)]
    /\ idx = 0
    /\ device = None
    /\ api_bound = FALSE
    /\ results = << >>
    /\ session = None
    /\ checkpoint = None
    /\ current_number = 1
    /\ original_network = None
    /\ now = 0
    /\ obs = NewObs
    /\ log = << >>
    /\ disc = DiscIdle
    /\ sweep = SweepIdle
    /\ loaded = None
    /\ files = NoFiles
    /\ recon = ReconIdle
    /\ app = AppIdle

ScenarioNext ==
    \/ provision_batch_start /\ ScenarioCalls
    \/ provision_device_enter(None) /\ ScenarioCalls
    \/ step_connect /\ ScenarioCalls
    \/ retry_attempt /\ ScenarioCalls
    \/ retry_raise /\ ScenarioCalls
    \/ connect_done /\ ScenarioCalls
    \/ get_info_done /\ ScenarioCalls
    \/ config_mqtt_done /\ ScenarioCalls
    \/ config_wifi_done /\ ScenarioCalls
    \/ step_disable_cloud /\ ScenarioCalls
    \/ step_rename /\ ScenarioCalls
    \/ step_reboot /\ ScenarioCalls
    \/ on_retry_error /\ ScenarioCalls
    \/ rollback_device /\ ScenarioCalls
    \/ device_complete /\ ScenarioCalls
    \/ provision_batch_finish /\ ScenarioCalls

ScenarioSpec == ScenarioInit /\ [][ScenarioNext]_vars

\* ------------------------------------------------ claims on the batch
\* the record of the device entered last: under construction, or just returned
Started == device # None \/ results # << >>
Rec == IF device # None THEN Dev ELSE results[Len(results)]
\* provision_device has handed its record back
Handled == device = None /\ results # << >>
NonEmptyMessage(m) == m # None /\ Truthy(m[1])

\* C1: provision_batch runs the candidates in list order and returns one
\* record per candidate, record i for candidate i, each in a terminal state;
\* no failure of a device stops the loop.
C1_OneTerminalRecordPerCandidate ==
    /\ idx = Len(results)
    /\ Len(results) <= Len(networks)
    /\ \A k \in 1..Len(results) :
         /\ results[k].ap_ssid = networks[k].ssid
         /\ results[k].state \in Terminal
    /\ device # None => /\ Len(results) < Len(networks)
                        /\ Dev.ap_ssid = networks[Len(results) + 1].ssid
    /\ pc = "returned" => Len(results) = Len(networks)

\* two candidates: the first is rolled back, the second completes
C1_Witness ==
    /\ pc = "returned"
    /\ Len(results) = 2
    /\ results[1].state = "rolled_back"
    /\ results[2].state = "completed"

\* C2: no two records share an assigned name: the counter advances by one at
\* the entry of each provision_device call, before a step runs, and failures
\* neither decrement nor reuse it.
C2_UniqueNames ==
    /\ \A j, k \in 1..Len(results) :
         j # k => results[j].assigned_name # results[k].assigned_name
    /\ \A k \in 1..Len(results) :
         results[k].assigned_name = Some(<<"RCC-Device", "-", Pad3(k)>>)
    /\ device # None =>
         /\ Dev.assigned_name = Some(<<"RCC-Device", "-", Pad3(Len(results) + 1)>>)
         /\ \A k \in 1..Len(results) : results[k].assigned_name # Dev.assigned_name
    /\ current_number = 1 + Len(results) + (IF device # None THEN 1 ELSE 0)

\* a failed device, and the second device named before its first step
C2_Witness ==
    /\ pc = "connect"
    /\ Len(results) = 1
    /\ results[1].state = "failed"
    /\ Dev.assigned_name = Some(<<"RCC-Device", "-", "002">>)
    /\ current_number = 3

\* C3: when a retried step exhausts its retries the record is failed, with a
\* non-empty error message, before the rollback runs, and the record handed
\* back still carries that message.
C3_FailedWithMessage ==
    /\ pc = "rollback" =>
         /\ obs.exhausted
         /\ Dev.state = "failed"
         /\ NonEmptyMessage(Dev.error_message)
    /\ (obs.exhausted /\ Started) =>
         /\ Rec.state \in {"failed", "rolled_back"}
         /\ NonEmptyMessage(Rec.error_message)
         /\ Rec.error_message[1][1] = "Operation failed after "
    /\ \A k \in 1..Len(results) :
         results[k].state \in {"failed", "rolled_back"} =>
             NonEmptyMessage(results[k].error_message)

\* a record handed back after get-info gave up
C3_Witness ==
    /\ Handled
    /\ obs.exhausted
    /\ obs.steps_at_failure = <<"connect_ap">>
    /\ Rec.error_message =
         Some(<<"Operation failed after ", "3", " attempts: ",
                "Shelly API Error: ", "Failed to get device info: ", "refused">>)

\* C4: after retry exhaustion the disable-broker call is issued exactly when
\* "config_mqtt" was in steps_completed at the failure, and never twice.
C4_RollbackIffBrokerConfigured ==
    /\ obs.disable_calls <= 1
    /\ (obs.exhausted /\ pc # "rollback") =>
         (obs.disable_calls = 1 <=> Contains(obs.steps_at_failure, "config_mqtt"))
    /\ pc = "rollback" => obs.disable_calls = 0

\* the network step gave up after the broker step had been recorded
C4_Witness ==
    /\ pc = "complete"
    /\ obs.exhausted
    /\ obs.steps_at_failure = <<"connect_ap", "get_info", "config_mqtt">>
    /\ obs.disable_calls = 1

\* C5 (as claimed): when the rollback's disable call raises, the error is
\* swallowed and the record ends rolled_back.
C5_RollbackErrorEndsRolledBack ==
    (obs.rollback_raised /\ pc # "rollback") => Rec.state = "rolled_back"

\* C6 (as claimed): an optional step whose device call failed is not in
\* steps_completed.
C6_OptionalRecordedOnlyOnSuccess ==
    Started =>
        \A step \in {"disable_cloud", "rename"} :
            step \in obs.rpc_failed => ~Contains(Rec.steps_completed, step)

\* ----------------------------------------------- the record's state machine
\* ProvisionState, in the order provision_device assigns its values
StateOrder ==
    <<"pending", "connecting", "getting_info", "config_mqtt", "config_wifi",
      "disable_cloud", "rename", "completed">>
Rank(state) == CHOOSE p \in 1..Len(StateOrder) : StateOrder[p] = state

\* a change of the record's state from s to t that the state machine allows
Legal(s, t) ==
    CASE t = "failed"      -> s \notin Terminal
      [] t = "rolled_back" -> s = "failed"
      [] OTHER             -> /\ s \notin Terminal
                              /\ Contains(StateOrder, s)
                              /\ Contains(StateOrder, t)
                              /\ Rank(s) < Rank(t)

\* the record under construction is the same one before and after the step
SameDevice == device # None /\ device' # None /\ idx' = idx /\ pc # "loop"

\* the records already handed back are where they were and as they were
HandedBackKept ==
    /\ Len(results') >= Len(results)
    /\ \A k \in 1..Len(results) :
         /\ results'[k].state = results[k].state
         /\ results'[k].steps_completed = results[k].steps_completed

\* C21: every change of a record's state is legal: forward in the order
\* pending .. completed, to failed from a non-terminal state, to rolled_back
\* from failed only; a record handed back by provision_device is terminal and
\* its state never changes again.
C21_LegalTransitions ==
    [][/\ (SameDevice /\ Dev'.state # Dev.state) => Legal(Dev.state, Dev'.state)
       /\ (device # None /\ device' = None) =>
             /\ Dev.state \in Terminal
             /\ results' = Append(results, Dev)
       /\ (pc' # "batch" /\ pc # "batch") => HandedBackKept
       /\ \A k \in 1..Len(results') : results'[k].state \in Terminal]_vars

\* a device whose broker configuration went through and whose WiFi
\* configuration did not: pending .. config_wifi, failed, rolled_back
C21_Witness ==
    /\ pc = "complete"
    /\ Dev.state = "rolled_back"
    /\ Dev.steps_completed = <<"connect_ap", "get_info", "config_mqtt">>
    /\ Len(results) = 1
    /\ results[1].state = "completed"

\* C23: a device is failed for association only after max_retries
\* association attempts.
C23_AssociationRetried ==
    (/\ pc = "complete"
     /\ Dev.state = "failed"
     /\ Dev.error_message = Some(<<"Failed to connect to Shelly AP">>))
    => obs.connect_calls = default_max_retries

\* the steps of provision_device, in the order it records them
StepOrder ==
    <<"connect_ap", "get_info", "config_mqtt", "config_wifi", "disable_cloud",
      "rename", "reboot">>
MandatorySteps == {"connect_ap", "get_info", "config_mqtt", "config_wifi", "reboot"}
StepRank(step) == CHOOSE p \in 1..Len(StepOrder) : StepOrder[p] = step

IsPrefix(a, b) == Len(a) <= Len(b) /\ SubSeq(b, 1, Len(a)) = a

\* duplicate-free, in the order of the steps, no mandatory step without the
\* mandatory steps before it
WellFormedSteps(steps) ==
    /\ \A p \in 1..Len(steps) : Contains(StepOrder, steps[p])
    /\ \A p, q \in 1..Len(steps) :
         p < q => StepRank(steps[p]) < StepRank(steps[q])
    /\ \A p \in 1..Len(steps) :
         steps[p] \in MandatorySteps =>
           \A m \in MandatorySteps :
             StepRank(m) < StepRank(steps[p]) => Contains(steps, m)

\* C22: steps_completed only grows by appending, also while the record is
\* failed and rolled back, and is always a duplicate-free subsequence of the
\* step order in which a mandatory step has all earlier mandatory steps
\* before it.
C22_StepsOnlyGrow ==
    [][/\ SameDevice => IsPrefix(Dev.steps_completed, Dev'.steps_completed)
       /\ device' # None => WellFormedSteps(Dev'.steps_completed)
       /\ (pc' # "batch" /\ pc # "batch") => HandedBackKept
       /\ \A k \in 1..Len(results') :
            WellFormedSteps(results'[k].steps_completed)]_vars

\* a device rolled back after its broker configuration: the three steps it
\* had recorded are still there
C22_Witness ==
    /\ pc = "loop"
    /\ Len(results) = 1
    /\ results[1].state = "rolled_back"
    /\ results[1].steps_completed = <<"connect_ap", "get_info", "config_mqtt">>
    /\ obs.disable_calls = 1

\* ------------------------------------------------ the checkpoint file
\* the one file of the session holds the records handed back so far, in the
\* order of the candidates
CheckpointHolds(fs, s, rs) ==
    /\ DOMAIN fs \subseteq {checkpoint_path(s)}
    /\ \A path \in DOMAIN fs :
         /\ fs[path].session_id = s.session_id
         /\ fs[path].devices = rs
         /\ \A k \in 1..Len(rs) : fs[path].devices[k].ap_ssid = networks[k].ssid

\* C27: the checkpoint written after device i holds exactly the records of
\* devices 1..i in processing order; every write goes to the one path made
\* from the session id and replaces the document there; the records written
\* before are in the new document as they were in the previous one.
C27_CheckpointGrowsInPlace ==
    [][/\ session' # None => CheckpointHolds(files', session'[1], results')
       /\ (pc = "complete" /\ pc' = "loop") =>
             /\ DOMAIN files' = {checkpoint_path(session'[1])}
             /\ Len(files'[checkpoint_path(session'[1])].devices) = idx + 1
       /\ \A path \in DOMAIN files :
            /\ path \in DOMAIN files'
            /\ IsPrefix(files[path].devices, files'[path].devices)]_vars

\* the checkpoint after the second device: the first record, rolled back, as
\* it was written after the first device, then the second
C27_Witness ==
    /\ pc = "loop"
    /\ idx = 2
    /\ DOMAIN files = {checkpoint_path(session[1])}
    /\ Len(files[checkpoint_path(session[1])].devices) = 2
    /\ files[checkpoint_path(session[1])].devices[1].state = "rolled_back"
    /\ files[checkpoint_path(session[1])].devices[2].state = "completed"
    /\ files[checkpoint_path(session[1])].completed_at = None

C25_ReconciliationAfterEveryBatch ==
    pc = "summary" =>
       \A k \in 1..Len(results) :
          results[k].state = "completed" => Len(recon.calls[k]) >= 1

\* ------------------------------------- saving and loading a checkpoint
\* how a record can stand when its session is saved
SampleOutcomes ==
    {[state |-> "completed", ip |-> None, msg |-> None,
      steps |-> <<"connect_ap", "get_info", "config_mqtt", "config_wifi",
                  "disable_cloud", "rename", "reboot">>],
     [state |-> "completed", ip |-> Some("192.168.1.77"), msg |-> None,
      steps |-> <<"connect_ap", "get_info", "config_mqtt", "config_wifi",
                  "reboot">>],
     [state |-> "failed", ip |-> None, steps |-> << >>,
      msg |-> Some(<<"Failed to connect to Shelly AP">>)],
     [state |-> "rolled_back", ip |-> None,
      steps |-> <<"connect_ap", "get_info">>,
      msg |-> Some(Str(RetryError(3, Some(ShellyAPIError(<<"Request timeout">>)))))]}

\* the record of candidate k in one of these outcomes
SampleRecord(k, c) ==
    [NewDevice(Network(k), get_next_name(k), k + 1) EXCEPT
        !.state = c.state, !.final_ip = c.ip,
        !.steps_completed = c.steps, !.error_message = c.msg]

\* sessions of 0..MaxDevices records, finished or not
SampleSessions ==
    UNION {
      {[session_id   |-> 0,
        broker_host  |-> address(broker),
        broker_port  |-> broker.port,
        devices      |-> [k \in 1..n |-> SampleRecord(k, f[k])],
        started_at   |-> 1,
        completed_at |-> done] : f \in [1..n -> SampleOutcomes],
                                done \in {None, Some(n + 2)}}
      : n \in 0..MaxDevices}

CheckpointInit ==
    /\ pc = "checkpoint"
    /\ \E s \in SampleSessions :
         /\ session = Some(s)
         /\ now = Len(s.devices) + 3
    /\ retry = RetryIdle
    /\ networks = << >>
    /\ idx = 0
    /\ device = None
    /\ api_bound = FALSE
    /\ results = << >>
    /\ checkpoint = None
    /\ current_number = 1
    /\ original_network = None
    /\ obs = NewObs
    /\ log = << >>
    /\ disc = DiscIdle
    /\ sweep = SweepIdle
    /\ loaded = None
    /\ files = NoFiles
    /\ recon = ReconIdle
    /\ app = AppIdle

\* session.save_checkpoint(filepath)
checkpoint_save ==
    /\ pc = "checkpoint"
    /\ checkpoint' = Some(save_checkpoint(session[1]))
    /\ files' = WriteFile(files, checkpoint_path(session[1]),
                          save_checkpoint(session[1]))
    /\ pc' = "saved"
    /\ UNCHANGED <<retry, networks, idx, device, api_bound, results, session,
                   current_number, original_network, now, obs>>
    /\ UNCHANGED <<log, disc, sweep, loaded, recon, app>>

\* ProvisionSession.load_checkpoint(filepath) of the document json.dump wrote
checkpoint_load ==
    /\ pc = "saved"
    /\ loaded' = Some(load_checkpoint(json_dump(checkpoint[1])))
    /\ pc' = "loaded"
    /\ UNCHANGED <<retry, networks, idx, device, api_bound, results, session,
                   checkpoint, current_number, original_network, now, obs>>
    /\ UNCHANGED <<log, disc, sweep, files, recon, app>>

CheckpointNext == checkpoint_save \/ checkpoint_load

CheckpointSpec == CheckpointInit /\ [][CheckpointNext]_vars

\* C16: the session load_checkpoint builds from the document save_checkpoint
\* wrote has the same session_id, broker_host, broker_port, started_at and
\* completed_at, and the same records in the same order, field for field.
C16_CheckpointRoundTrip ==
    pc = "loaded" =>
        LET a == session[1]
            b == loaded[1]
        IN  /\ b.session_id = a.session_id
            /\ b.broker_host = a.broker_host
            /\ b.broker_port = a.broker_port
            /\ b.started_at = a.started_at
            /\ b.completed_at = a.completed_at
            /\ Len(b.devices) = Len(a.devices)
            /\ \A k \in 1..Len(a.devices) :
                 /\ b.devices[k].mac = a.devices[k].mac
                 /\ b.devices[k].ap_ssid = a.devices[k].ap_ssid
                 /\ b.devices[k].model = a.devices[k].model
                 /\ b.devices[k].state = a.devices[k].state
                 /\ b.devices[k].assigned_name = a.devices[k].assigned_name
                 /\ b.devices[k].final_ip = a.devices[k].final_ip
                 /\ b.devices[k].steps_completed = a.devices[k].steps_completed
                 /\ b.devices[k].error_message = a.devices[k].error_message
                 /\ b.devices[k].timestamp = a.devices[k].timestamp

\* a finished session of two records was saved and loaded: one completed
\* with a resolved address, one rolled back with a message
C16_Witness ==
    /\ pc = "loaded"
    /\ session[1].completed_at # None
    /\ Len(loaded[1].devices) = 2
    /\ loaded[1].devices[1].final_ip = Some("192.168.1.77")
    /\ loaded[1].devices[2].state = "rolled_back"
    /\ loaded[1].devices[2].error_message # None

\* no part of a JSON string is one of the secrets
Clean(j) == \A p \in 1..Len(j.s) : j.s[p] \notin Credentials
CleanDevice(j) ==
    /\ Clean(j.mac) /\ Clean(j.ap_ssid) /\ Clean(j.model) /\ Clean(j.state)
    /\ Clean(j.assigned_name) /\ Clean(j.final_ip) /\ Clean(j.error_message)
    /\ Clean(j.timestamp)
    /\ \A p \in 1..Len(j.steps_completed) : Clean(j.steps_completed[p])
CleanDocument(doc) ==
    /\ Clean(doc.session_id) /\ Clean(doc.broker_host) /\ Clean(doc.started_at)
    /\ Clean(doc.completed_at)
    /\ \A k \in 1..Len(doc.devices) : CleanDevice(doc.devices[k])

SampleMacs ==
    {None, Some(""), Some("unknown"), Some(DeviceId(1)), Some("A8:03:2A:BE:54:D1")}

\* mac_address.lower().replace(":", "").replace("-", "")
normalize_mac(m) ==
    CASE m = "A8032ABE54D1"      -> "a8032abe54d1"
      [] m = "A8:03:2A:BE:54:D1" -> "a8032abe54d1"
      [] m = "a8-03-2a-be-54-d1" -> "a8032abe54d1"
      [] OTHER                   -> m

\* mutant: the hardware address is not used
ResolvePlan_NamesFirst(mac) == <<"ping", "mdns", "arp">>

\* resolve_hostname: the calls it makes until one has a result
ResolvePlan(mac) ==
    IF Truthy(mac)
    THEN <<"arp_mac", "populate", "arp_mac_again", "ping", "mdns">>
    ELSE <<"ping", "mdns", "arp">>

\* resolve_hostname(hostname, mac_address) entered
ResolveCall(mac) == [DiscIdle EXCEPT !.pc = "resolve", !.mac = mac]

\* the call resolve_hostname is about to make
ResolveStep ==
    IF disc.pc = "resolve" THEN ResolvePlan(disc.mac)[Len(disc.tried) + 1]
    ELSE "none"

\* one call of resolve_hostname has been made with outcome o and result r:
\* if res: return res.ip, otherwise the next call, None after the last
Resolved(d, name, o, r) ==
    IF o.kind \in Errors /\ ~Handles(name, o.kind)
    THEN [d EXCEPT !.tried = Append(@, [name |-> name, found |-> FALSE]),
                   !.raised = TRUE, !.pc = "done"]
    ELSE [d EXCEPT !.tried = Append(@, [name |-> name, found |-> r # None]),
                   !.faults = IF o.kind \in Errors THEN @ + 1 ELSE @,
                   !.result = IF r # None THEN r ELSE @,
                   !.pc = IF r # None \/ Len(d.tried) + 1 = Len(ResolvePlan(d.mac))
                          THEN "done" ELSE "resolve"]

\* discovery._scan_arp_table(hostname, mac_address), before and after the
\* table was populated
resolve_arp_mac ==
    /\ ResolveStep \in {"arp_mac", "arp_mac_again"}
    /\ \E o \in {Failed("OSError"), Nothing}, table \in ArpTables :
         disc' = Resolved(disc, ResolveStep, o,
                          IF o.kind = "nothing"
                          THEN scan_arp_table(table, Some(normalize_mac(disc.mac[1])))
                          ELSE None)
    /\ UNCHANGED <<sweep, discover_rest>>

\* discovery._populate_arp_table(): every address of the subnet is pinged,
\* nothing is returned
resolve_populate ==
    /\ ResolveStep = "populate"
    /\ \E o \in {Failed("OSError"), Nothing} :
         disc' = Resolved(disc, "populate", o, None)
    /\ UNCHANGED <<sweep, discover_rest>>

\* discovery._try_ping_discovery(hostname)
resolve_ping ==
    /\ ResolveStep = "ping"
    /\ \E o \in {Failed("TimeoutExpired"), Failed("OSError"), Nothing}
                 \cup {Answer(ip) : ip \in SampleAddresses} :
         disc' = Resolved(disc, "ping", o, ping_result(o))
    /\ UNCHANGED <<sweep, discover_rest>>

\* discovery._try_mdns(hostname)
resolve_mdns ==
    /\ ResolveStep = "mdns"
    /\ \E o \in {Failed("gaierror"), Failed("OSError")}
                 \cup {Answer(ip) : ip \in SampleAddresses} :
         disc' = Resolved(disc, "mdns", o,
                          IF o.kind = "answer"
                          THEN Some(DiscoveredBroker(o.ip, "mDNS")) ELSE None)
    /\ UNCHANGED <<sweep, discover_rest>>

\* if not mac_address: discovery._scan_arp_table(hostname)
resolve_arp ==
    /\ ResolveStep = "arp"
    /\ \E o \in {Failed("OSError"), Nothing}, table \in ArpTables :
         disc' = Resolved(disc, "arp", o,
                          IF o.kind = "nothing"
                          THEN scan_arp_table(table, None) ELSE None)
    /\ UNCHANGED <<sweep, discover_rest>>

ResolveInit ==
    /\ pc = "resolve_hostname"
    /\ \E mac \in SampleMacs : disc = ResolveCall(mac)
    /\ sweep = SweepIdle
    /\ retry = RetryIdle
    /\ networks = << >>
    /\ idx = 0
    /\ device = None
    /\ api_bound = FALSE
    /\ results = << >>
    /\ session = None
    /\ checkpoint = None
    /\ current_number = 1
    /\ original_network = None
    /\ now = 0
    /\ obs = NewObs
    /\ log = << >>
    /\ loaded = None
    /\ files = NoFiles
    /\ recon = ReconIdle
    /\ app = AppIdle

ResolveNext ==
    \/ resolve_arp_mac
    \/ resolve_populate
    \/ resolve_ping
    \/ resolve_mdns
    \/ resolve_arp

ResolveSpec == ResolveInit /\ [][ResolveNext]_vars

TriedNames == [p \in 1..Len(disc.tried) |-> disc.tried[p].name]

\* C26: with a hardware address, the neighbor table is matched by that
\* address first, the table is populated and matched again, and only then
\* come the name probe and the name resolution; without one, the name probe
\* comes first; a call that has a result is the last one made.
C26_HardwareMatchFirst ==
    /\ IsPrefix(TriedNames,
                IF disc.mac # None /\ disc.mac[1] # ""
                THEN <<"arp_mac", "populate", "arp_mac_again", "ping", "mdns">>
                ELSE <<"ping", "mdns", "arp">>)
    /\ \A p \in 1..Len(disc.tried) :
         disc.tried[p].found => p = Len(disc.tried) /\ disc.pc = "done"
    /\ disc.pc = "done" =>
         \/ disc.result # None /\ disc.tried[Len(disc.tried)].found
         \/ disc.result = None /\ Len(disc.tried) = Len(ResolvePlan(disc.mac))

\* the hardware address was not in the neighbor table, before or after the
\* table was populated; the name probe then answered
C26_Witness ==
    /\ disc.pc = "done"
    /\ disc.mac = Some("A8:03:2A:BE:54:D1")
    /\ TriedNames = <<"arp_mac", "populate", "arp_mac_again", "ping">>
    /\ disc.result = Some(DiscoveredBroker(<<192, 168, 1, 50>>, "ping"))

\* C28: an address returned by a neighbor-table match belongs to a host that
\* accepts a connection on the service port.
C28_NeighborMatchVerified ==
    (disc.result # None /\ disc.result[1].method \in {"ARP scan", "ARP MAC match"})
    => \E e \in ArpEntries : e.ip = disc.result[1].ip /\ e.accepts

\* ---------------------------------------------------- discover on its own
DiscoverInit ==
    /\ pc = "discover"
    /\ disc = DiscoverCall
    /\ sweep = SweepIdle
    /\ retry = RetryIdle
    /\ networks = << >>
    /\ idx = 0
    /\ device = None
    /\ api_bound = FALSE
    /\ results = << >>
    /\ session = None
    /\ checkpoint = None
    /\ current_number = 1
    /\ original_network = None
    /\ now = 0
    /\ obs = NewObs
    /\ log = << >>
    /\ loaded = None
    /\ files = NoFiles
    /\ recon = ReconIdle
    /\ app = AppIdle

DiscoverNext ==
    \/ try_ping_discovery
    \/ try_mdns
    \/ try_zeroconf
    \/ try_network_scan
    \/ \E w \in 1..SweepWorkers : worker_take(w)
    \/ \E w \in 1..SweepWorkers : check_host_enter(w)
    \/ \E w \in 1..SweepWorkers : check_host_ping(w)
    \/ \E w \in 1..SweepWorkers : check_host_verify(w)
    \/ \E w \in 1..SweepWorkers : check_host_assign(w)
    \/ scan_network_return
    \/ network_scan_return

DiscoverSpec == DiscoverInit /\ [][DiscoverNext]_vars

\* the order of the cascade
Cascade == <<"ping", "mdns", "zeroconf", "arp", "sweep">>
NoneFound == \A p \in 1..Len(disc.tried) : ~disc.tried[p].found

\* C18: the strategies are invoked in the order name probe, name
\* resolution, service listen, neighbor table, subnet sweep; the first that
\* succeeds is the last one invoked and its result is the one returned; after
\* a successful name probe the sweep is never started.
C18_CascadeOrder ==
    /\ Len(disc.tried) <= Len(Cascade)
    /\ \A p \in 1..Len(disc.tried) :
         /\ disc.tried[p].name = Cascade[p]
         /\ disc.tried[p].found => p = Len(disc.tried) /\ disc.pc = "done"
    /\ sweep.pc # "idle" =>
         /\ Len(disc.tried) = 5
         /\ \A p \in 1..4 : ~disc.tried[p].found
    /\ (disc.pc = "done" /\ ~disc.raised) =>
         /\ disc.result # None <=> ~NoneFound
         /\ disc.result # None =>
               disc.result[1].method =
                  CASE Len(disc.tried) = 1 -> "ping"
                    [] Len(disc.tried) = 2 -> "mDNS"
                    [] Len(disc.tried) = 3 -> "Zeroconf"
                    [] Len(disc.tried) = 4 -> "ARP scan"
                    [] OTHER -> "Deep Network Scan"

\* the name probe answered with a usable address: discover returned it and
\* nothing else ran
C18_Witness ==
    /\ disc.pc = "done"
    /\ disc.tried = <<[name |-> "ping", found |-> TRUE]>>
    /\ disc.result = Some(DiscoveredBroker(<<192, 168, 1, 50>>, "ping"))
    /\ sweep.pc = "idle"

Loopback(ip) == ip[1] = 127
LinkLocal(ip) == ip[1] = 169 /\ ip[2] = 254

\* C29: the name probe never returns a loopback or link-local address.
C29_ProbeRejectsLoopbackAndLinkLocal ==
    (disc.result # None /\ disc.result[1].method = "ping")
    => ~Loopback(disc.result[1].ip) /\ ~LinkLocal(disc.result[1].ip)

\* C30: when the first three strategies found nothing, the neighbor table
\* has been looked up by the time discover returns.
C30_LookupAlwaysPerformed ==
    (/\ disc.pc = "done"
     /\ ~disc.raised
     /\ Len(disc.tried) >= 3
     /\ \A p \in 1..3 : ~disc.tried[p].found)
    => Len(disc.tried) >= 4 /\ disc.tried[4].name = "arp"

\* C19: discover never raises for a failed lookup: when no strategy finds
\* the broker, whatever made each of them fail, it returns None.
C19_NotFoundIsNone ==
    /\ ~disc.raised
    /\ (disc.pc = "done" /\ NoneFound) => disc.result = None

\* the probe timed out or failed, the resolver failed, the listener was
\* unavailable or failed, the local address could not be determined: None
C19_Witness ==
    /\ disc.pc = "done"
    /\ disc.result = None
    /\ Len(disc.tried) = 3
    /\ disc.faults = 4

\* ------------------------------------------------- the sweep on its own
SweepInit ==
    /\ pc = "sweep"
    /\ \E hosts \in [1..SweepHosts -> HostKinds] :
          sweep \in {SweepCall(hosts), PopulateCall(hosts)}
    /\ retry = RetryIdle
    /\ networks = << >>
    /\ idx = 0
    /\ device = None
    /\ api_bound = FALSE
    /\ results = << >>
    /\ session = None
    /\ checkpoint = None
    /\ current_number = 1
    /\ original_network = None
    /\ now = 0
    /\ obs = NewObs
    /\ log = << >>
    /\ disc = DiscIdle
    /\ loaded = None
    /\ files = NoFiles
    /\ recon = ReconIdle
    /\ app = AppIdle

SweepNext ==
    \/ \E w \in 1..SweepWorkers : worker_take(w)
    \/ \E w \in 1..SweepWorkers : check_host_enter(w)
    \/ \E w \in 1..SweepWorkers : check_host_ping(w)
    \/ \E w \in 1..SweepWorkers : check_host_verify(w)
    \/ \E w \in 1..SweepWorkers : check_host_assign(w)
    \/ scan_network_return

SweepSpec == SweepInit /\ [][SweepNext]_vars

\* the addresses that answer the ping and accept the connection
Brokers == {h \in 1..Len(sweep.hosts) : sweep.hosts[h] = "broker"}

\* C20: under every interleaving of the workers the sweep returns an address
\* exactly when some address of the range answers the probe and accepts the
\* connection, and the address returned is one of those.
C20_SweepFindsIffPresent ==
    /\ sweep.found_broker # 0 => sweep.found_broker \in Brokers
    /\ (sweep.pc = "done" /\ ~sweep.populate) =>
         /\ (sweep.result # 0 <=> Brokers # {})
         /\ sweep.result # 0 => sweep.result \in Brokers

\* two brokers in the range: the sweep returned the first although the
\* second was probed too
C20_Witness ==
    /\ sweep.pc = "done"
    /\ Cardinality(Brokers) = 2
    /\ sweep.result = CHOOSE h \in Brokers : \A g \in Brokers : h <= g
    /\ Brokers \subseteq sweep.probed

\* the checks whose worker has not finished them
InFlight == {w \in 1..SweepWorkers : sweep.worker[w] # Idle}

C32_FlagStopsLaterChecks ==
    [][/\ \A w \in 1..SweepWorkers :
            (sweep.found_broker # 0 /\ sweep.worker[w].at = "enter"
               /\ sweep.worker'[w] # sweep.worker[w])
            => (sweep.worker'[w] = Idle /\ sweep.probed' = sweep.probed)
       /\ (sweep.pc = "running" /\ sweep.found_broker # 0)
            => sweep.found_broker' # 0
       /\ (sweep.pc = "running" /\ sweep.found_broker # 0 /\ sweep.pc' = "done")
            => sweep.result' # 0]_vars

\* the first address was the broker: the sweep returned it and the two
\* checks that started after the match probed nothing
C32_Witness ==
    /\ sweep.pc = "done"
    /\ sweep.result = 1
    /\ sweep.probed = {1}
    /\ Len(sweep.taken) = SweepHosts

\* ------------------------------------------- reading the batch's log
Pos(ev, k) == {p \in 1..Len(log) : log[p].ev = ev /\ log[p].k = k}
Before(P, Q) == \A p \in P, q \in Q : p < q
SessionDevices == IF session = None THEN << >> ELSE session[1].devices
NonTerminal(seq) == {k \in 1..Len(seq) : seq[k].state \notin Terminal}
\* provision_device is running for candidate idx + 1
InWorkflow == pc \in BatchPcs \ {"loop"}

\* C11: at most one record is in a non-terminal state at any time, the one
\* of the candidate whose workflow is running; every record handed back or
\* kept in the session is terminal, and candidate k + 1 is announced only
\* after candidate k's record was handed back and appended.
C11_SingleFlight ==
    /\ NonTerminal(results) = {}
    /\ NonTerminal(SessionDevices) = {}
    /\ pc = "complete" => Dev.state \in Terminal
    /\ pc = "loop" => device = None
    /\ InWorkflow =>
         /\ device # None
         /\ Len(results) = idx
         /\ Cardinality(Pos("progress", idx + 1)) = 1
         /\ Pos("append", idx + 1) = {}
         /\ idx > 0 =>
              /\ Cardinality(Pos("append", idx)) = 1
              /\ Before(Pos("append", idx), Pos("progress", idx + 1))
              /\ results[idx].state \in Terminal

\* the second workflow is running, mid-way, after the first record was
\* handed back
C11_Witness ==
    /\ pc = "rename"
    /\ Len(results) = 1
    /\ Dev.state \notin Terminal
    /\ Pos("append", 1) # {}
    /\ Pos("progress", 2) # {}

\* C12: the checkpoint holding records 1..k is written after record k is
\* terminal and before candidate k + 1 is announced and named, and the pause
\* of inter_device_delay seconds lies between that write and the announcement.
C12_CheckpointThenPause ==
    /\ checkpoint # None =>
         /\ NonTerminal(checkpoint[1].devices) = {}
         /\ checkpoint[1].devices = results
    /\ (idx > 0 /\ pc \in BatchPcs) =>
         /\ checkpoint # None
         /\ Cardinality(Pos("checkpoint", idx)) = 1
         /\ \A p \in Pos("checkpoint", idx) : log[p].n = idx
         /\ Before(Pos("append", idx), Pos("checkpoint", idx))
         /\ Before(Pos("checkpoint", idx), Pos("sleep", idx))
         /\ Before(Pos("sleep", idx), Pos("progress", idx + 1))
         /\ Before(Pos("progress", idx + 1), Pos("name", idx + 1))
         /\ idx < Len(networks) =>
              \E p \in Pos("sleep", idx) : log[p].n = inter_device_delay
         /\ InWorkflow => Pos("name", idx + 1) # {}

\* the second candidate has been announced and named after the first
\* checkpoint and the pause
C12_Witness ==
    /\ pc = "connect"
    /\ idx = 1
    /\ Pos("checkpoint", 1) # {}
    /\ Pos("sleep", 1) # {}
    /\ Pos("name", 2) # {}

\* C13 (as claimed): once the batch is over, by return, by an exception or by
\* an interrupt, a reconnect to the network captured before it was attempted.
C13_ReconnectOnEveryExit ==
    (pc \in {"reconcile", "summary", "menu", "exited"} /\ original_network # None)
        => \E p \in 1..Len(log) : log[p].ev = "reconnect"

\* C14 (as claimed): after an interrupt the finished records are still in
\* the session and the candidate in progress has a Failed record there, with
\* a message.
C14_InterruptedDeviceFailed ==
    \A p \in 1..Len(log) :
        (log[p].ev = "interrupt" /\ log[p].k > 0) =>
            /\ Len(SessionDevices) = log[p].k
            /\ SessionDevices[log[p].k].state = "failed"
            /\ NonEmptyMessage(SessionDevices[log[p].k].error_message)

\* C15: three candidates, the broker configuration of the second fails on
\* every attempt, everything else succeeds: three records come back, the
\* first and third completed and named RCC-Device-001 and RCC-Device-003, the
\* second rolled back, named RCC-Device-002, with an error message and
\* without "config_mqtt" among its completed steps.
C15_SecondDeviceRolledBack ==
    pc = "returned" =>
        /\ Len(results) = 3
        /\ results[1].state = "completed"
        /\ results[1].assigned_name = Some(<<"RCC-Device", "-", "001">>)
        /\ results[3].state = "completed"
        /\ results[3].assigned_name = Some(<<"RCC-Device", "-", "003">>)
        /\ results[2].state = "rolled_back"
        /\ results[2].assigned_name = Some(<<"RCC-Device", "-", "002">>)
        /\ NonEmptyMessage(results[2].error_message)
        /\ ~Contains(results[2].steps_completed, "config_mqtt")

\* the batch has returned; the second record stopped after get_info, with
\* the message of the RetryError of three attempts
C15_Witness ==
    /\ pc = "returned"
    /\ Len(results) = 3
    /\ results[2].steps_completed = <<"connect_ap", "get_info">>
    /\ results[2].error_message[1][1] = "Operation failed after "
    /\ results[2].error_message[1][2] = "3"
    /\ Contains(results[3].steps_completed, "config_mqtt")

\* C33: whenever the reboot step is reached, its next step appends "reboot"
\* to steps_completed and leaves the record completed, without an error
\* message, whether the reboot call returned or raised.
C33_RebootFailureIsNoError ==
    [][pc = "reboot" =>
         /\ pc' = "complete"
         /\ device'[1].state = "completed"
         /\ device'[1].steps_completed = Append(Dev.steps_completed, "reboot")
         /\ device'[1].error_message = None]_vars

\* the reboot call raised and the record is completed
C33_Witness ==
    /\ pc = "complete"
    /\ "reboot" \in obs.rpc_failed
    /\ Dev.state = "completed"
    /\ Dev.steps_completed[Len(Dev.steps_completed)] = "reboot"

\* the records provision_device has returned, and the one it is about to
Returnable == {results[k] : k \in 1..Len(results)}
                 \cup (IF pc = "complete" THEN {Dev} ELSE {})

\* the calls made for the device at hand stay within their numbers
CallsBounded ==
    /\ pc \in {"retry", "retried"} =>
         /\ retry.max_retries = default_max_retries
         /\ retry.calls <= retry.max_retries
    /\ \A op \in DOMAIN obs.retried : obs.retried[op] <= 1
    /\ \A op \in DOMAIN obs.invoked : obs.invoked[op] <= 1
    /\ obs.disable_calls <= 1

\* provision_batch has returned one terminal record per candidate
BatchReturned ==
    /\ pc = "returned"
    /\ Len(results) = Len(networks)
    /\ NonTerminal(results) = {}

\* C34: when every call returns or raises within its timeout, provision_batch
\* returns for every candidate list; for each device every mandatory
\* operation is handed to retry_operation once and called at most
\* max_retries times, every optional operation, the reboot and the
\* rollback's disable call are made at most once, and the record ends in a
\* terminal state.
C34_BatchTerminates == []CallsBounded /\ <>BatchReturned

\* the batch returned after a device used every attempt of the association
\* and of the broker step and was rolled back
C34_Witness ==
    /\ BatchReturned
    /\ Len(results) >= 1
    /\ obs.exhausted
    /\ obs.retried["config_mqtt"] = 1
    /\ obs.disable_calls = 1
    /\ Rec.state = "rolled_back"

\* C35: a record returned by provision_device is completed exactly when
\* "reboot" is in steps_completed; a completed record holds the four
\* mandatory steps and no error message; a failed or rolled_back record has
\* its error message set.
C35_ReturnedRecordWellFormed ==
    \A r \in Returnable :
        /\ r.state = "completed" <=> Contains(r.steps_completed, "reboot")
        /\ r.state = "completed" =>
              /\ \A step \in {"connect_ap", "get_info", "config_mqtt", "config_wifi"} :
                    Contains(r.steps_completed, step)
              /\ r.error_message = None
        /\ r.state \in {"failed", "rolled_back"} => r.error_message # None

\* a batch that returned a failed record with its message and a completed
\* one with every optional step
C35_Witness ==
    /\ pc = "returned"
    /\ Len(results) = 2
    /\ results[1].state = "failed"
    /\ results[1].error_message = Some(<<"Failed to connect to Shelly AP">>)
    /\ results[2].state = "completed"
    /\ results[2].steps_completed = StepOrder

\* C36: the rollback runs only after retry exhaustion; a device that failed
\* otherwise is failed with its message set, no disable call was issued for
\* it and it is not rolled_back.
C36_RollbackOnlyAfterExhaustion ==
    /\ pc = "rollback" => obs.exhausted
    /\ (Started /\ ~obs.exhausted) =>
         /\ obs.disable_calls = 0
         /\ Rec.state # "rolled_back"
         /\ Rec.state = "failed" => NonEmptyMessage(Rec.error_message)
         /\ (pc = "complete" \/ Handled) => Rec.state \in {"completed", "failed"}

\* the association call returned False: the record was handed back failed
C36_Witness ==
    /\ Handled
    /\ ~obs.exhausted
    /\ obs.connect_calls = 1
    /\ obs.disable_calls = 0
    /\ Rec.state = "failed"
    /\ Rec.steps_completed = << >>
    /\ Rec.error_message = Some(<<"Failed to connect to Shelly AP">>)

\* C37: on_device_complete is invoked once for each candidate, with the
\* record in a terminal state (after the rollback when there is one), before
\* the record is appended to the session and before the checkpoint is
\* written.
C37_NotifiedOnceBeforeStored ==
    /\ obs.notified <= 1
    /\ InWorkflow =>
         /\ obs.notified = 0
         /\ Pos("on_device_complete", idx + 1) = {}
    /\ pc = "complete" => Dev.state \in Terminal
    /\ (pc \in {"loop", "returned"} /\ idx > 0) => obs.notified = 1
    /\ (pc \in BatchPcs \cup {"returned"} /\ idx > 0) =>
         /\ Cardinality(Pos("on_device_complete", idx)) = 1
         /\ Cardinality(Pos("append", idx)) = 1
         /\ Before(Pos("on_device_complete", idx), Pos("append", idx))
         /\ Before(Pos("on_device_complete", idx), Pos("checkpoint", idx))
         /\ results[idx].state \in Terminal
    /\ pc = "returned" => idx = Len(networks)

\* a rolled-back record: the disable call, then the callback, then the
\* record stored and saved
C37_Witness ==
    /\ Handled
    /\ Rec.state = "rolled_back"
    /\ obs.disable_calls = 1
    /\ obs.notified = 1
    /\ Pos("checkpoint", idx) # {}

\* ------------------------------------------------------------- AppSpec
AppInit ==
    /\ pc = "app"
    /\ app = AppCall
    /\ retry = RetryIdle
    /\ networks = << >>
    /\ idx = 0
    /\ device = None
    /\ api_bound = FALSE
    /\ results = << >>
    /\ session = None
    /\ checkpoint = None
    /\ current_number = 1
    /\ original_network = None
    /\ now = 0
    /\ obs = NewObs
    /\ log = << >>
    /\ disc = DiscIdle
    /\ sweep = SweepIdle
    /\ loaded = None
    /\ files = NoFiles
    /\ recon = ReconIdle

AppNext ==
    \/ run_enter
    \/ app_setup
    \/ choose_discover
    \/ choose_scan
    \/ choose_provision
    \/ choose_reset
    \/ choose_quit
    \/ app_interrupt
    \/ app_exception
    \/ cleanup_quit
    \/ cleanup_handler
    \/ interrupt_in_handler
    \/ atexit_clear

AppSpec == AppInit /\ [][AppNext]_vars

\* the four credentials are empty
Cleared(c) ==
    c.username = "" /\ c.password = "" /\ c.ssid = "" /\ c.wifi_password = ""

\* C38: however the run loop ended (quit, interrupt, unexpected exception),
\* once run has returned the broker's username and password and the target
\* network's name and password are empty, and they are empty from then on.
C38_CredentialsClearedOnExit ==
    /\ app.pc = "returned" =>
         /\ app.exit \in {"quit", "interrupt", "exception"}
         /\ Cleared(app.config)
    /\ app.pc = "terminated" => Cleared(app.config)

\* run returned 1 after an unexpected exception, and the target network's
\* name and password, set until then, are gone
C38_Witness ==
    /\ app.pc = "returned"
    /\ app.exit = "exception"
    /\ app.code = 1
    /\ app.held
    /\ app.last = "3"

\* C39 (as claimed): once the setup was completed with a target network name
\* and password and the broker's address is known, choosing "Provision
\* Devices" does not lead back to the configuration setup: it goes on to the
\* provision menu, the scan and provision_batch.
C39_ProvisionProceedsAfterSetup ==
    [][(/\ app.pc = "menu"
        /\ app.configured
        /\ wifi_is_configured(app.config)
        /\ app.config.ip # None
        /\ app'.pc \in {"menu", "setup"}
        /\ app'.last = "3")
       => (/\ app'.pc = "menu"
           /\ app'.did \in {"back", "scan", "provision_batch"})]_vars

\* ------------------------------------------------------------ RetrySpec
RetryInit ==
    /\ pc = "retry"
    /\ \E n \in 0..MaxAttempts, d \in DelayBases, b \in Backoffs, cb \in BOOLEAN :
         retry = RetryCall("generic", n, d, b, cb)
    /\ networks = << >>
    /\ idx = 0
    /\ device = None
    /\ api_bound = FALSE
    /\ results = << >>
    /\ session = None
    /\ checkpoint = None
    /\ current_number = 1
    /\ original_network = None
    /\ now = 0
    /\ obs = NewObs
    /\ log = << >>
    /\ disc = DiscIdle
    /\ sweep = SweepIdle
    /\ loaded = None
    /\ files = NoFiles
    /\ recon = ReconIdle
    /\ app = AppIdle

RetryNext == retry_attempt \/ retry_raise

RetrySpec == RetryInit /\ [][RetryNext]_vars

\* ------------------------------------------- reading the retry history
Trace == retry.trace
At(ev) == {p \in 1..Len(Trace) : Trace[p].ev = ev}
InOrder(S) == SelectSeq(Trace, LAMBDA x : x.ev \in S)

\* the events a call at position p is followed by, up to the next call
NextCallAfter(p) ==
    IF \E q \in At("call") : q > p
    THEN CHOOSE q \in At("call") : q > p /\ \A q2 \in At("call") : q2 > p => q <= q2
    ELSE Len(Trace) + 1
Following(p) == SubSeq(Trace, p + 1, NextCallAfter(p) - 1)
Only(seq, ev) == SelectSeq(seq, LAMBDA x : x.ev = ev)

RetryFinished == pc = "retried" /\ retry.operation = "generic"

\* C7: an operation that fails on every call is invoked exactly max_retries
\* times, after which retry_operation raises RetryError, whose message carries
\* the error of the last (max_retries-th) call.
C7_ExhaustionAfterNCalls ==
    (RetryFinished /\ At("returned") = {}) =>
        /\ retry.outcome.kind = "raise"
        /\ retry.outcome.error[1].type = "RetryError"
        /\ retry.calls = retry.max_retries
        /\ Cardinality(At("call")) = retry.max_retries
        /\ Cardinality(At("raised")) = retry.max_retries
        /\ retry.max_retries >= 1 =>
             LET final == CHOOSE p \in At("raised") : Trace[p].n = retry.max_retries - 1
             IN  /\ \A p \in At("raised") : p <= final
                 /\ retry.outcome.error[1].msg =
                      <<"Operation failed after ", ToString(retry.max_retries),
                        " attempts: ">> \o Trace[final].err

\* three calls, the last failing differently from the first two
C7_Witness ==
    /\ RetryFinished
    /\ retry.outcome.kind = "raise"
    /\ retry.max_retries = 3
    /\ InOrder({"raised"}) =
         << Event("raised", 0, <<"E1">>), Event("raised", 1, <<"E1">>),
            Event("raised", 2, <<"E2">>) >>

\* C8: after the failure of 0-indexed attempt k < max_retries - 1 the sleep is
\* delay_base * 2^k (exponential) or delay_base (linear); nothing is slept
\* after the last failed attempt or after a success.
C8_BackoffDelays ==
    /\ \A p \in At("raised") :
         LET k == Trace[p].n
             slept == Only(Following(p), "sleep")
         IN  IF k < retry.max_retries - 1
             THEN /\ Len(slept) = 1
                  /\ slept[1].n = IF retry.backoff = "exponential"
                                  THEN retry.delay_base * 2 ^ k
                                  ELSE retry.delay_base
             ELSE slept = << >>
    /\ \A p \in At("returned") : Only(Following(p), "sleep") = << >>
    /\ \A p \in At("sleep") : p > 1 /\ Trace[p - 1].ev \in {"raised", "on_retry"}

\* exponential backoff that has slept 5, 10 and is now exhausted
C8_Witness ==
    /\ RetryFinished
    /\ retry.backoff = "exponential"
    /\ retry.delay_base = 5
    /\ retry.max_retries = 3
    /\ retry.outcome.kind = "raise"
    /\ Len(InOrder({"sleep"})) = 2

\* C9: with an on_retry callback, every failed attempt but the last is followed
\* by exactly one on_retry(attempt + 1, error), placed before the sleep and
\* before the next call; the numbers count 1, 2, ...; the last failure and a
\* success are followed by none.
C9_OnRetryOrder ==
    retry.on_retry =>
        /\ \A p \in At("raised") :
             LET k == Trace[p].n
             IN  IF k < retry.max_retries - 1
                 THEN /\ Len(Following(p)) = 2
                      /\ Following(p)[1] = Event("on_retry", k + 1, Trace[p].err)
                      /\ Following(p)[2].ev = "sleep"
                 ELSE Only(Following(p), "on_retry") = << >>
        /\ \A p \in At("returned") : Following(p) = << >>
        /\ LET cbs == InOrder({"on_retry"})
           IN  \A j \in 1..Len(cbs) : cbs[j].n = j

\* two notifications, then a third call
C9_Witness ==
    /\ pc = "retry"
    /\ retry.on_retry
    /\ retry.max_retries = 3
    /\ Len(InOrder({"on_retry"})) = 2
    /\ retry.attempt = 2

\* C10: when the operation first succeeds on call k <= max_retries,
\* retry_operation returns that call's value after exactly k calls, all the
\* earlier ones having failed, and raises nothing; the operation is never
\* called more than max_retries times.
C10_FirstSuccessReturned ==
    /\ retry.calls <= retry.max_retries
    /\ Cardinality(At("call")) = retry.calls
    /\ At("returned") # {} =>
         LET p == CHOOSE q \in At("returned") : TRUE
             k == Trace[p].n + 1
         IN  /\ At("returned") = {p}
             /\ p = Len(Trace)
             /\ k <= retry.max_retries
             /\ retry.calls = k
             /\ Cardinality(At("raised")) = k - 1
             /\ retry.outcome = Returned(Trace[p].err[1])
             /\ retry.outcome.error = None

\* success on the third of three calls
C10_Witness ==
    /\ RetryFinished
    /\ retry.outcome = Returned("v2")
    /\ retry.max_retries = 3
    /\ retry.calls = 3

====
